---- MODULE Spec2Model ----
(***************************************************************************)
(* Model of the prediction validator: the worker loop of runWorker, the    *)
(* job lease of Validator.getNextPredictionToValidate, the pipeline of     *)
(* Validator.validatePrediction and the insert of storeValidationResult.   *)
(*                                                                         *)
(* The database is PostgreSQL at its default isolation level (READ         *)
(* COMMITTED; db.transaction is called without an isolation level): a      *)
(* statement reads the rows committed when it starts, and SELECT ... FOR   *)
(* UPDATE SKIP LOCKED takes its row locks afterwards, while it runs.       *)
(* Decimal columns are modelled as hundredths (0.85 is 85).                *)
(***************************************************************************)
EXTENDS Integers, Sequences, FiniteSets, Bags, TLC

\* ---------------------------------------------------------------- bounds
NumWorkers == 2
NumPreds == 2
MaxNow == 1
MaxFaults == 1
NumProfiles == 6

\* ------------------------------------------------------ program constants
INITIAL_QUERIES == 2
RESULTS_PER_QUERY == 10
MAX_TOTAL_RESULTS == 30
FILTER_VALIDATION_CONFIDENCE_MIN == 85
PREDICTION_QUALITY_MIN == 30
LLM_CONFIDENCE_MIN == 50
VAGUENESS_MAX == 80
QuoteMax == 200
TRUE_DEFINITIVE_MIN == 9
FALSE_DEFINITIVE_MAX == 2
ProofMax == 700
SourcesMax == 5
DefaultScore == 5

Workers == 1..NumWorkers
Preds == 1..NumProfiles

\* A nullable number is <<>> (null) or <<v>>.
Null == <<>>
Some(v) == <<v>>
IsNull(x) == x = <<>>
Val(x) == x[1]
NullStr == "<null>"

Min(a, b) == IF a <= b THEN a ELSE b

\* ------------------------------------------------------------- strings
\* A text is the sequence of its characters.
UpperCase ==
  << "A", "B", "C", "D", "E", "F", "G", "H", "I", "J", "K", "L", "M", "N",
     "O", "P", "Q", "R", "S", "T", "U", "V", "W", "X", "Y", "Z" >>
LowerCase ==
  << "a", "b", "c", "d", "e", "f", "g", "h", "i", "j", "k", "l", "m", "n",
     "o", "p", "q", "r", "s", "t", "u", "v", "w", "x", "y", "z" >>

LowerChar(c) ==
  IF \E i \in 1..Len(UpperCase) : UpperCase[i] = c
    THEN LowerCase[CHOOSE i \in 1..Len(UpperCase) : UpperCase[i] = c]
    ELSE c

\* A toLowerCase that leaves the text as it is.
ToLowerCaseNever(s) == s

\* String.prototype.toLowerCase
ToLowerCase(s) == [i \in 1..Len(s) |-> LowerChar(s[i])]

\* String.prototype.includes: keyword occurs in s at some offset.
Includes(s, keyword) ==
  \E i \in 0..(Len(s) - Len(keyword)) :
    \A j \in 1..Len(keyword) : s[i + j] = keyword[j]

\* The keywords of shouldValidatePrediction, in the order of the source.
invalidKeywordList ==
  << << "n", "o", "t", " ", "a", " ", "p", "r", "e", "d", "i", "c", "t", "i",
        "o", "n" >>,
     << "n", "o", "t", " ", "a", " ", "v", "a", "l", "i", "d", " ", "p", "r",
        "e", "d", "i", "c", "t", "i", "o", "n" >>,
     << "n", "o", " ", "p", "r", "e", "d", "i", "c", "t", "i", "o", "n" >>,
     << "i", "n", "v", "a", "l", "i", "d", " ", "p", "r", "e", "d", "i", "c",
        "t", "i", "o", "n" >>,
     << "n", "o", "t", " ", "m", "a", "k", "i", "n", "g", " ", "a", " ", "p",
        "r", "e", "d", "i", "c", "t", "i", "o", "n" >>,
     << "d", "o", "e", "s", " ", "n", "o", "t", " ", "c", "o", "n", "t", "a",
        "i", "n", " ", "a", " ", "p", "r", "e", "d", "i", "c", "t", "i", "o",
        "n" >>,
     << "d", "o", "e", "s", "n", "'", "t", " ", "c", "o", "n", "t", "a", "i",
        "n", " ", "a", " ", "p", "r", "e", "d", "i", "c", "t", "i", "o", "n" >>,
     << "n", "o", " ", "c", "l", "e", "a", "r", " ", "p", "r", "e", "d", "i",
        "c", "t", "i", "o", "n" >>,
     << "l", "a", "c", "k", "s", " ", "a", " ", "p", "r", "e", "d", "i", "c",
        "t", "i", "o", "n" >>,
     << "m", "i", "s", "s", "i", "n", "g", " ", "p", "r", "e", "d", "i", "c",
        "t", "i", "o", "n" >>,
     << "n", "o", "t", " ", "p", "r", "e", "d", "i", "c", "t", "i", "v", "e" >>,
     << "t", "o", "o", " ", "v", "a", "g", "u", "e" >>,
     << "o", "v", "e", "r", "l", "y", " ", "v", "a", "g", "u", "e" >>,
     << "i", "m", "p", "o", "s", "s", "i", "b", "l", "e", " ", "t", "o", " ",
        "v", "a", "l", "i", "d", "a", "t", "e" >>,
     << "c", "a", "n", "n", "o", "t", " ", "b", "e", " ", "v", "a", "l", "i",
        "d", "a", "t", "e", "d" >>,
     << "n", "o", "t", " ", "v", "e", "r", "i", "f", "i", "a", "b", "l", "e" >>,
     << "u", "n", "v", "e", "r", "i", "f", "i", "a", "b", "l", "e" >>,
     << "h", "e", "a", "v", "y", " ", "h", "e", "d", "g", "i", "n", "g" >>,
     << "q", "u", "o", "t", "i", "n", "g", " ", "s", "o", "m", "e", "o", "n",
        "e", " ", "e", "l", "s", "e" >>,
     << "i", "s", " ", "a", "n", " ", "a", "n", "n", "o", "u", "n", "c", "e",
        "m", "e", "n", "t" >>,
     << "f", "a", "c", "t", "u", "a", "l", " ", "a", "n", "n", "o", "u", "n",
        "c", "e", "m", "e", "n", "t" >> >>

invalidKeywords == {invalidKeywordList[k] : k \in 1..Len(invalidKeywordList)}

\* Filter reasonings the stored predictions carry.
ClearClaim == << "a", " ", "c", "l", "e", "a", "r", " ", "c", "l", "a", "i",
                 "m" >>
TooVagueToCheck ==
  << "T", "O", "O", " ", "V", "A", "G", "U", "E", " ", "t", "o", " ", "c", "h",
     "e", "c", "k" >>
IsNotAPrediction ==
  << "t", "h", "i", "s", " ", "i", "s", " ", "N", "o", "t", " ", "A", " ", "P",
     "r", "e", "d", "i", "c", "t", "i", "o", "n" >>

\* ------------------------------------------------ in-memory pre-filter
\* A tuple t is the joined row: start, end, fvc, quality, llm, vagueness are
\* nullable numbers; status is a string or NullStr; reasoning is a text,
\* <<>> when null or empty.
DateTruthy(d) == ~IsNull(d)
StrTruthy(s) == s # <<>>

KeywordHit(t) ==
  /\ StrTruthy(t.reasoning)
  /\ \E keyword \in invalidKeywords : Includes(ToLowerCase(t.reasoning), keyword)

shouldValidatePrediction(t) ==
  IF DateTruthy(t.start) /\ DateTruthy(t.end) /\ Val(t.start) > Val(t.end)
    THEN [shouldValidate |-> FALSE, reason |-> "Invalid timeframe"]
  ELSE IF t.status = "missing"
    THEN [shouldValidate |-> FALSE, reason |-> "Timeframe status missing"]
  ELSE IF KeywordHit(t)
    THEN [shouldValidate |-> FALSE, reason |-> "Filter stage marked as invalid"]
  ELSE IF ~IsNull(t.fvc) /\ Val(t.fvc) < FILTER_VALIDATION_CONFIDENCE_MIN
    THEN [shouldValidate |-> FALSE, reason |-> "Filter validation confidence too low"]
  ELSE IF ~IsNull(t.llm) /\ Val(t.llm) < LLM_CONFIDENCE_MIN
    THEN [shouldValidate |-> FALSE, reason |-> "LLM confidence too low"]
  ELSE IF ~IsNull(t.quality) /\ Val(t.quality) < PREDICTION_QUALITY_MIN
    THEN [shouldValidate |-> FALSE, reason |-> "Prediction quality too low"]
  ELSE IF ~IsNull(t.vagueness) /\ Val(t.vagueness) > VAGUENESS_MAX
    THEN [shouldValidate |-> FALSE, reason |-> "Prediction too vague"]
  ELSE [shouldValidate |-> TRUE, reason |-> ""]

\* ------------------------------------------------- SQL lease predicate
\* SQL comparisons are three-valued: "T", "F" or "U" (unknown, on a null
\* operand); WHERE keeps a row only when its condition is "T".
\* An IS NULL test that never succeeds: the null branch of a filter is lost.
SqlIsNullNever(x) == "F"

SqlIsNull(x) == IF IsNull(x) THEN "T" ELSE "F"
SqlIsNotNull(x) == IF IsNull(x) THEN "F" ELSE "T"
\* lte and gte written as strict comparisons.
SqlLtStrict(a, b) ==
  IF IsNull(a) \/ IsNull(b) THEN "U" ELSE IF Val(a) < Val(b) THEN "T" ELSE "F"

SqlLte(a, b) ==
  IF IsNull(a) \/ IsNull(b) THEN "U" ELSE IF Val(a) <= Val(b) THEN "T" ELSE "F"
\* gte written as lte: the thresholds of the lease are turned around.
SqlGteFlipped(a, b) == SqlLte(a, b)

SqlGte(a, b) == SqlLte(b, a)
SqlNeStr(a, b) ==
  IF a = NullStr \/ b = NullStr THEN "U" ELSE IF a # b THEN "T" ELSE "F"
SqlOr(vs) == IF "T" \in vs THEN "T" ELSE IF "U" \in vs THEN "U" ELSE "F"
SqlAnd(vs) == IF "F" \in vs THEN "F" ELSE IF "U" \in vs THEN "U" ELSE "T"

\* The WHERE clause without the "no validation result" anti-join.
LeaseFilters(t, at) ==
  SqlAnd({ SqlIsNotNull(t.end),
           SqlLte(t.end, Some(at)),
           SqlOr({SqlIsNull(t.start), SqlIsNull(t.end), SqlLte(t.start, t.end)}),
           SqlNeStr(t.status, "missing"),
           SqlOr({SqlIsNull(t.fvc),
                  SqlGte(t.fvc, Some(FILTER_VALIDATION_CONFIDENCE_MIN))}),
           SqlOr({SqlIsNull(t.quality),
                  SqlGte(t.quality, Some(PREDICTION_QUALITY_MIN))}),
           SqlOr({SqlIsNull(t.llm), SqlGte(t.llm, Some(LLM_CONFIDENCE_MIN))}),
           SqlOr({SqlIsNull(t.vagueness),
                  SqlLte(t.vagueness, Some(VAGUENESS_MAX))}) })

LeasePredicate(t, at) == LeaseFilters(t, at) = "T"

\* ------------------------------------------------------ stored predictions
\* The joined parsed_prediction / parsed_prediction_details / scraped_tweet
\* rows, written by the upstream pipeline and never changed by the validator.
\* context is prediction_context ("" when absent); goal tells where the goal
\* slices point: "local" (the leased tweet), "cross" (another tweet of the
\* thread, fetched by getThreadTweet) or "none" (no slice).
CleanTuple ==
  [ start |-> Some(0), end |-> Some(1), status |-> "explicit",
    reasoning |-> ClearClaim, fvc |-> Some(85),
    quality |-> Some(30), llm |-> Some(50), vagueness |-> Some(80),
    context |-> "ctx", goal |-> "cross" ]

\* Prediction 1 has a context and a cross-tweet slice; 2 is the oldest and its
\* filter reasoning holds a keyword; 3 and 5 have no context (goal text from
\* another tweet, from the leased tweet); 4 has neither context nor slices;
\* every other one is too vague for the lease.
Prediction(p) ==
  CASE p = 1 -> CleanTuple
    [] p = 2 ->
         [CleanTuple EXCEPT !.reasoning = TooVagueToCheck,
                            !.fvc = Null, !.start = Null, !.end = Some(0)]
    [] p = 3 -> [CleanTuple EXCEPT !.context = "", !.quality = Null]
    [] p = 4 -> [CleanTuple EXCEPT !.context = "", !.goal = "none"]
    [] p = 5 -> [CleanTuple EXCEPT !.context = "", !.goal = "local"]
    [] OTHER -> [CleanTuple EXCEPT !.vagueness = Some(VAGUENESS_MAX + 1)]

\* ------------------------------------------------------------------ state
VARIABLES
  pc,                \* pc[w]: where worker w is in runWorker / validatePrediction
  leased,            \* leased[w]: the prediction of w's transaction, Null or <<p>>
  cand,              \* cand[w]: rows the running lease statement of w has read
  combined,          \* combined[w]: combinedResults.length of w's validation
  result,            \* result[w]: the ValidationResult w's validation returned
  calls,             \* calls[w]: external calls issued by w's validation
  txRows,            \* txRows[w]: rows w's open transaction has inserted
  fault,             \* fault[w]: what failed in w's transaction so far
  activity,          \* activity[w]: w's entry in CostTracker.workers
  validationResult,  \* committed validation_result rows, per prediction
  costLog,           \* outcomes of the costs.json lines, per prediction
  session,           \* CostTracker's session statistics
  shouldStop,        \* runValidator's stop flag
  exitCode,          \* the code runValidator exited with, Null while it runs
  concurrency,       \* runValidator's parameter: workers 1..concurrency run
  stored,            \* the predictions the upstream pipeline has stored
  wide,              \* whether the external replies range over the wide sets
  now,               \* the wall clock
  faults,            \* database faults injected so far
  probe,             \* a joined row put to the lease predicate and the pre-filter
  judgeProbe,        \* a judge reply put to ResultJudge.evaluate
  textProbe,         \* a text put to truncateText, once and then again
  searchProbe,       \* provider replies put to searchMultiple and the combining
  goalProbe,         \* prediction details and tweets put to extractGoalText
  trackerProbe,      \* what a sequence of updateCosts calls was given
  lastJudgment,      \* lastJudgment[w]: the judgment the outcome mapping of w's
                     \* validation read (the last one evaluate returned)
  saidSufficient,    \* saidSufficient[w]: the first judge reply of w's validation
                     \* said <sufficient>true</sufficient>
  pastAttempts,      \* pastAttempts[w]: the attempts w's validation passed to
                     \* enhanceWithTokens, <<>> before that call
  stages             \* stages[w]: the stages completed for w's leased
                     \* prediction, in the order of their completion

vars == << pc, leased, cand, combined, result, calls, txRows, fault, activity,
           validationResult, costLog, session, shouldStop, exitCode, now,
           faults, concurrency, stored, wide, probe, judgeProbe, textProbe,
           searchProbe, goalProbe, trackerProbe,
           saidSufficient, pastAttempts, stages, lastJudgment >>

config ==
  << concurrency, stored, wide, probe, judgeProbe, textProbe, searchProbe,
     goalProbe, trackerProbe >>

NoResult ==
  [outcome |-> "none", proof |-> "", len |-> 0, text |-> <<>>, sources |-> 0, sourceIdx |-> <<>>]
NoCalls == [enhance |-> 0, search |-> 0, judge |-> 0]
\* The usage one chat reply reports (prompt_tokens, completion_tokens).
ReplyUsage == [input |-> 2, output |-> 1]
NoFault == [chat |-> FALSE, search |-> FALSE, db |-> FALSE, log |-> FALSE]
Outcomes ==
  { "MaturedTrue", "MaturedFalse", "MaturedMostlyTrue", "MaturedMostlyFalse",
    "NotMatured", "MissingContext", "Invalid" }
NoSession ==
  [validated |-> 0, searchApiCalls |-> 0, totalInputTokens |-> 0,
   totalOutputTokens |-> 0, outcomes |-> [o \in Outcomes |-> 0],
   searchCost |-> 0, llmCost |-> 0, totalCost |-> 0]
NotRun == [shouldValidate |-> FALSE, reason |-> "not run"]
NoJudgment ==
  [decision |-> "", score |-> 0, lens |-> [summary |-> 0, evidence |-> 0, reasoning |-> 0],
   sufficient |-> FALSE, nextQuerySuggestion |-> ""]
NoJudgeProbe ==
  [scoreStr |-> <<>>, decision |-> "", ran |-> FALSE, judgment |-> NoJudgment]
NoTextProbe == [text |-> <<>>, once |-> <<>>, twice |-> <<>>, step |-> 0]
NoSearchProbe ==
  [responses |-> <<>>, refined |-> [kind |-> "ok", n |-> 0, unlinked |-> {}],
   step |-> 0, initial |-> <<>>, combined |-> <<>>]
NoGoalProbe ==
  [context |-> <<>>, goal |-> <<>>, ran |-> FALSE, predictionText |-> <<>>]
NoTrackerProbe == [calls |-> 0, entries |-> <<>>]
NoProbe ==
  [t |-> CleanTuple, at |-> 0, leaseRan |-> FALSE, returned |-> FALSE,
   checkRan |-> FALSE, check |-> NotRun,
   plant |-> [k |-> 0, casing |-> "lower", before |-> 0, after |-> 0],
   rejected |-> NoResult, row |-> NoResult]

InitState ==
  /\ pc = [w \in Workers |-> "loop"]
  /\ leased = [w \in Workers |-> Null]
  /\ cand = [w \in Workers |-> {}]
  /\ combined = [w \in Workers |-> 0]
  /\ result = [w \in Workers |-> NoResult]
  /\ calls = [w \in Workers |-> NoCalls]
  /\ txRows = [w \in Workers |-> <<>>]
  /\ fault = [w \in Workers |-> NoFault]
  /\ activity = [w \in Workers |-> "Started"]
  /\ validationResult = [p \in Preds |-> <<>>]
  /\ costLog = [p \in Preds |-> <<>>]
  /\ session = NoSession
  /\ shouldStop = FALSE
  /\ exitCode = Null
  /\ now = 0
  /\ faults = 0
  /\ saidSufficient = [w \in Workers |-> FALSE]
  /\ lastJudgment = [w \in Workers |-> NoJudgment]
  /\ pastAttempts = [w \in Workers |-> <<>>]
  /\ stages = [w \in Workers |-> <<>>]

\* runValidator starts NumWorkers workers over NumPreds stored predictions.
Init ==
  /\ InitState
  /\ concurrency = NumWorkers
  /\ stored = 1..NumPreds
  /\ wide = FALSE
  /\ probe = NoProbe
  /\ judgeProbe = NoJudgeProbe
  /\ textProbe = NoTextProbe
  /\ searchProbe = NoSearchProbe
  /\ goalProbe = NoGoalProbe
  /\ trackerProbe = NoTrackerProbe

\* One worker validates one stored prediction, of any profile, with the
\* external replies ranging over the wide sets.
InitPipeline ==
  /\ InitState
  /\ concurrency = 1
  /\ \E p \in Preds : stored = {p}
  /\ wide = TRUE
  /\ probe = NoProbe
  /\ judgeProbe = NoJudgeProbe
  /\ textProbe = NoTextProbe
  /\ searchProbe = NoSearchProbe
  /\ goalProbe = NoGoalProbe
  /\ trackerProbe = NoTrackerProbe

\* ------------------------------------------------------------- the lease
\* The pcs at which worker w is inside its db.transaction callback.
TxPcs == { "lease", "lock", "extract", "validate", "enhance", "search",
           "judge", "refine", "search2", "judge2", "costlog", "store",
           "commit", "commit_empty", "rollback" }

\* The row lock FOR UPDATE takes is held until the transaction ends.
HoldsLock(w, p) == leased[w] = Some(p) /\ pc[w] \in TxPcs

\* The lease without FOR UPDATE: no row is ever seen as locked.
NeverLocked(w, p) == FALSE

LockedByOther(w, p) == \E o \in Workers \ {w} : HoldsLock(o, p)

\* LEFT JOIN validation_result ... WHERE validation_result.parsed_prediction_id
\* IS NULL, over the rows committed when the statement starts.
HasNoResult(p) == validationResult[p] = <<>>

Eligible(p, at) ==
  p \in stored /\ LeasePredicate(Prediction(p), at) /\ HasNoResult(p)

\* The lease without its ORDER BY: any row that is not locked.
AnyUnlocked(w, rows) == {p \in rows : ~LockedByOther(w, p)}

\* ORDER BY timeframe_end_utc ASC LIMIT 1 FOR UPDATE SKIP LOCKED over the rows
\* read: the rows with the least end among those no other transaction locks.
FirstUnlocked(w, rows) ==
  LET free == {p \in rows : ~LockedByOther(w, p)}
  IN {p \in free : \A q \in free : Val(Prediction(p).end) <= Val(Prediction(q).end)}

DbFaultPossible == faults < MaxFaults

\* A stop hook that never reports the flag.
stopHookNever == FALSE

\* runValidator line 242: the hook every worker is given, () => shouldStop.
stopHook == shouldStop

\* while (!stopHook()): db.transaction begins, the lease statement starts and
\* reads the committed rows (its snapshot).
BeginTransaction(w) ==
  /\ w <= concurrency
  /\ pc[w] = "loop"
  /\ ~stopHook
  /\ pc' = [pc EXCEPT ![w] = "lock"]
  /\ cand' = [cand EXCEPT ![w] = {p \in Preds : Eligible(p, now)}]
  /\ activity' = [activity EXCEPT ![w] = "Fetching prediction"]
  /\ UNCHANGED << leased, combined, result, calls, txRows, fault,
                  validationResult, costLog, session, shouldStop, now, faults,
                  lastJudgment, saidSufficient, pastAttempts, stages, exitCode,
                  config >>

\* The lease statement locks the first row it read that is not locked, and
\* returns it; with none, getNextPredictionToValidate returns null.
LeaseLock(w) ==
  /\ pc[w] = "lock"
  /\ \/ \E p \in FirstUnlocked(w, cand[w]) :
          /\ leased' = [leased EXCEPT ![w] = Some(p)]
          /\ pc' = [pc EXCEPT ![w] = "extract"]
     \/ /\ FirstUnlocked(w, cand[w]) = {}
        /\ leased' = leased
        /\ pc' = [pc EXCEPT ![w] = "commit_empty"]
  /\ cand' = [cand EXCEPT ![w] = {}]
  /\ UNCHANGED << combined, result, calls, txRows, fault, activity,
                  validationResult, costLog, session, shouldStop, now, faults,
                  lastJudgment, saidSufficient, pastAttempts, stages, exitCode,
                  config >>

\* The lease statement fails (a transient database error): the callback throws.
LeaseFails(w) ==
  /\ pc[w] = "lock"
  /\ DbFaultPossible
  /\ faults' = faults + 1
  /\ fault' = [fault EXCEPT ![w].db = TRUE]
  /\ pc' = [pc EXCEPT ![w] = "rollback"]
  /\ cand' = [cand EXCEPT ![w] = {}]
  /\ UNCHANGED << leased, combined, result, calls, txRows, activity,
                  validationResult, costLog, session, shouldStop, now,
                  lastJudgment, saidSufficient, pastAttempts, stages, exitCode,
                  config >>

\* The callback's locals (prediction, validationResult, the counters of
\* validatePrediction) are gone once db.transaction has returned or thrown.
Forget(w) ==
  /\ leased' = [leased EXCEPT ![w] = Null]
  /\ combined' = [combined EXCEPT ![w] = 0]
  /\ result' = [result EXCEPT ![w] = NoResult]
  /\ calls' = [calls EXCEPT ![w] = NoCalls]
  /\ fault' = [fault EXCEPT ![w] = NoFault]
  /\ saidSufficient' = [saidSufficient EXCEPT ![w] = FALSE]
  /\ lastJudgment' = [lastJudgment EXCEPT ![w] = NoJudgment]
  /\ pastAttempts' = [pastAttempts EXCEPT ![w] = <<>>]
  /\ stages' = [stages EXCEPT ![w] = <<>>]

\* The callback returned null: commit, then "Waiting (idle)" and sleep(10000).
CommitEmpty(w) ==
  /\ pc[w] = "commit_empty"
  /\ pc' = [pc EXCEPT ![w] = "sleep"]
  /\ activity' = [activity EXCEPT ![w] = "Waiting (idle)"]
  /\ Forget(w)
  /\ UNCHANGED << cand, txRows, validationResult, costLog, session,
                  shouldStop, now, faults, exitCode, config >>

\* ------------------------------------------------------- external replies
\* What the provider answers to one search request: a list of n results
\* with a link, or a failure.
ProviderCounts == IF wide THEN {0, 1, 12} ELSE {1}
SearchFailures == IF wide THEN {"network_error", "http_error", "api_error"} ELSE {}
SearchResponses ==
  [kind : {"ok"}, n : ProviderCounts] \cup [kind : SearchFailures, n : {0}]

\* searchMultiple without its slice(0, maxResults): whatever the provider sent.
searchMultipleUncut(resp, maxResults) ==
  IF resp.kind = "ok" THEN resp.n ELSE 0

\* searchMultiple(query, maxResults): every failure is caught and gives [].
searchMultiple(resp, maxResults) ==
  IF resp.kind = "ok" THEN Min(resp.n, maxResults) ELSE 0

SearchFailed(resp) == resp.kind # "ok"

\* A judge reply: the <decision> text, the <score> text (Null when it holds
\* no integer), the lengths of <summary>, <evidence> and <reasoning> (0 when
\* empty), and whether it says <sufficient>true</sufficient>.
Decisions == IF wide THEN {"TRUE", "FALSE", "INCONCLUSIVE", ""} ELSE {"FALSE"}
Scores ==
  IF wide THEN {Null, Some(0), Some(2), Some(3), Some(5), Some(8), Some(9)}
  ELSE {Some(9)}
TextLens ==
  IF wide THEN { [summary |-> 40, evidence |-> 0, reasoning |-> 0],
                 [summary |-> 300, evidence |-> 300, reasoning |-> 200] }
  ELSE { [summary |-> 40, evidence |-> 0, reasoning |-> 0] }
SufficientTags == IF wide THEN BOOLEAN ELSE {FALSE}
JudgeReplies ==
  [decision : Decisions, score : Scores, lens : TextLens,
   sufficient : SufficientTags]

ErrorMessageLens == IF wide THEN {30, 800} ELSE {30}

\* Texts as sequences of characters, for the content of the <score> tag.
Digits == << "0", "1", "2", "3", "4", "5", "6", "7", "8", "9" >>
IsDigit(c) == \E d \in 1..Len(Digits) : Digits[d] = c
DigitValue(c) == (CHOOSE d \in 1..Len(Digits) : Digits[d] = c) - 1

RECURSIVE DecimalValue(_)
DecimalValue(s) ==
  IF s = <<>> THEN 0
  ELSE 10 * DecimalValue(SubSeq(s, 1, Len(s) - 1)) + DigitValue(s[Len(s)])

RECURSIVE DigitPrefix(_)
DigitPrefix(s) ==
  IF s = <<>> \/ ~IsDigit(Head(s)) THEN <<>>
  ELSE <<Head(s)>> \o DigitPrefix(Tail(s))

\* parseInt on a trimmed text: an optional sign, then the longest run of
\* digits; NaN (Null here) when there is no digit at that place.
parseInt(s) ==
  LET signed == s # <<>> /\ Head(s) \in {"-", "+"}
      digits == DigitPrefix(IF signed THEN Tail(s) ELSE s)
  IN IF digits = <<>> THEN Null
     ELSE IF signed /\ Head(s) = "-" THEN Some(0 - DecimalValue(digits))
     ELSE Some(DecimalValue(digits))

\* parseInt(scoreStr) || 5
ParseScore(s) == IF IsNull(s) \/ Val(s) = 0 THEN DefaultScore ELSE Val(s)

\* The judge without the reconciliation of decision and score.
evaluateUnreconciled(reply) ==
  [decision |-> reply.decision, score |-> ParseScore(reply.score),
   lens |-> reply.lens, sufficient |-> FALSE, nextQuerySuggestion |-> ""]

\* ResultJudge.evaluate on a non-empty result list. It extracts score,
\* decision, summary, evidence and reasoning from the reply; the Judgment it
\* returns has no sufficient field, so validatePrediction reads undefined,
\* which is falsy, whatever the reply says.
evaluate(reply) ==
  LET score == ParseScore(reply.score)
      d1 == IF score >= 7 /\ reply.decision # "TRUE" THEN "TRUE" ELSE reply.decision
      d2 == IF score <= 3 /\ reply.decision # "FALSE" THEN "FALSE" ELSE d1
      d3 == IF score > 3 /\ score < 7 /\ reply.decision # "INCONCLUSIVE"
              THEN "INCONCLUSIVE" ELSE d2
  IN [decision |-> d3, score |-> score, lens |-> reply.lens,
      sufficient |-> FALSE, nextQuerySuggestion |-> ""]

\* enhanceMultiple returns one query per angle, in the order of the angles; a
\* query is named by the number of its angle.
InitialQueries == [i \in 1..INITIAL_QUERIES |-> i]

\* The attempts in reverse order and marked successful.
PastAttemptsReversed(queries, judgment) ==
  [i \in 1..Len(queries) |->
     [query |-> queries[Len(queries) + 1 - i], success |-> TRUE,
      reasoning |-> judgment.nextQuerySuggestion]]

\* validatePrediction lines 545-556: one attempt per initial query, in order,
\* not successful, with the judgment's nextQuerySuggestion as reasoning ("" when
\* the judgment has none).
PastAttempts(queries, judgment) ==
  [i \in 1..Len(queries) |->
     [query |-> queries[i], success |-> FALSE,
      reasoning |-> judgment.nextQuerySuggestion]]

\* A text is written as its runs of equal characters, in order:
\* << [c |-> "s", n |-> 40], [c |-> ".", n |-> 3] >> is forty s and "...".
\* Adjacent runs have different characters, so equal texts are equal values.
Run(c, n) == IF n = 0 THEN <<>> ELSE << [c |-> c, n |-> n] >>

\* text.length: the sum of the run lengths, as the size of the bag that
\* holds run i of t exactly t[i].n times.
Length(t) == BagCardinality([i \in 1..Len(t) |-> t[i].n])

\* a + b
Concat(a, b) ==
  IF Len(a) = 0 THEN b
  ELSE IF Len(b) = 0 THEN a
  ELSE IF a[Len(a)].c = b[1].c
    THEN SubSeq(a, 1, Len(a) - 1)
           \o << [c |-> b[1].c, n |-> a[Len(a)].n + b[1].n] >> \o Tail(b)
  ELSE a \o b

\* The offset at which run i of t starts.
StartOf(t, i) == Length(SubSeq(t, 1, i - 1))

\* t.slice(0, k) and t.substring(0, k), for k >= 0: the runs that start
\* before offset k, the last of them cut at k.
Slice(t, k) ==
  IF Length(t) <= k THEN t
  ELSE LET m == Cardinality({i \in 1..Len(t) : StartOf(t, i) < k})
       IN IF m = 0 THEN <<>>
          ELSE [i \in 1..m |->
                  IF StartOf(t, i) + t[i].n <= k THEN t[i]
                  ELSE [c |-> t[i].c, n |-> k - StartOf(t, i)]]

Ellipsis == Run(".", 3)

\* A truncation that keeps maxLength characters and then adds the ellipsis.
truncateTextKeepsMax(text, maxLength) ==
  IF Length(text) <= maxLength THEN text
  ELSE Concat(Slice(text, maxLength), Ellipsis)

\* utils.truncateText
truncateText(text, maxLength) ==
  IF Length(text) <= maxLength THEN text
  ELSE Concat(Slice(text, maxLength - 3), Ellipsis)

\* The outcome mapping with the reserved outcome for an inconclusive judgment.
OutcomeWithNotMatured(j) ==
  IF j.decision = "TRUE" THEN "MaturedTrue"
  ELSE IF j.decision = "FALSE" THEN "MaturedFalse"
  ELSE "NotMatured"

\* The outcome mapping with strict comparisons at the definitive thresholds.
OutcomeOfStrict(j) ==
  IF j.decision = "TRUE"
    THEN (IF j.score > TRUE_DEFINITIVE_MIN THEN "MaturedTrue" ELSE "MaturedMostlyTrue")
  ELSE IF j.decision = "FALSE"
    THEN (IF j.score < FALSE_DEFINITIVE_MAX THEN "MaturedFalse" ELSE "MaturedMostlyFalse")
  ELSE "MissingContext"

\* validatePrediction, lines 592-618 and 644-654: outcome, proof and sources.
OutcomeOf(j) ==
  IF j.decision = "TRUE"
    THEN (IF j.score >= TRUE_DEFINITIVE_MIN THEN "MaturedTrue" ELSE "MaturedMostlyTrue")
  ELSE IF j.decision = "FALSE"
    THEN (IF j.score <= FALSE_DEFINITIVE_MAX THEN "MaturedFalse" ELSE "MaturedMostlyFalse")
  ELSE "MissingContext"

\* Lines 608-616: summary, then "\n\n" and the evidence when there is one,
\* then "\n\nReasoning: " and the reasoning when there is one.
ProofText(lens) ==
  LET withEvidence ==
        IF lens.evidence > 0
          THEN Concat(Concat(Run("s", lens.summary), Run("LF", 2)),
                      Run("v", lens.evidence))
          ELSE Run("s", lens.summary)
  IN IF lens.reasoning > 0
       THEN Concat(Concat(Concat(withEvidence, Run("LF", 2)), Run("R", 11)),
                   Run("g", lens.reasoning))
       ELSE withEvidence

\* The last k entries of a list of n entries.
FirstEntriesFromEnd(n, k) == [i \in 1..Min(n, k) |-> n - Min(n, k) + i]

\* list.slice(0, k) on a list of n entries, an entry named by its position.
FirstEntries(n, k) == [i \in 1..Min(n, k) |-> i]

JudgedResult(j, n) ==
  LET proof == truncateText(ProofText(j.lens), 700)
      sources == IF j.decision # "INCONCLUSIVE" THEN FirstEntries(n, 2) ELSE <<>>
  IN [ outcome |-> OutcomeOf(j), proof |-> "summary", len |-> Length(proof),
       text |-> proof, sources |-> Len(sources), sourceIdx |-> sources ]

\* A catch block that reports the failure as missing context.
ErrorAsMissingContext(msgLen) ==
  [outcome |-> "MissingContext", proof |-> "Validation error: ",
   len |-> 18 + msgLen, text |-> Concat(Run("e", 18), Run("m", msgLen)),
   sources |-> 0, sourceIdx |-> <<>>]

\* validatePrediction's catch block.
ErrorResult(msgLen) ==
  [outcome |-> "Invalid", proof |-> "Validation error: ", len |-> 18 + msgLen,
   text |-> Concat(Run("e", 18), Run("m", msgLen)), sources |-> 0, sourceIdx |-> <<>>]

\* A pre-filter rejection reported as missing context.
RejectedAsMissingContext(reason, text) ==
  [outcome |-> "MissingContext", proof |-> reason, len |-> Length(text),
   text |-> text, sources |-> 0, sourceIdx |-> <<>>]

\* A text of characters as its runs.
RECURSIVE CharsText(_)
CharsText(s) ==
  IF Len(s) = 0 THEN <<>>
  ELSE IF Len(s) = 1 THEN Run(s[1], 1)
  ELSE LET half == Len(s) \div 2
       IN Concat(CharsText(SubSeq(s, 1, half)),
                 CharsText(SubSeq(s, half + 1, Len(s))))

\* s.slice(0, k) on a text of characters.
SliceChars(s, k) == SubSeq(s, 1, Min(Len(s), k))

FilterStagePrefix ==
  << "F", "i", "l", "t", "e", "r", " ", "s", "t", "a", "g", "e", " ", "m", "a",
     "r", "k", "e", "d", " ", "a", "s", " ", "i", "n", "v", "a", "l", "i", "d",
     ":", " " >>

\* The characters of preCheck.reason. The keyword reason is the fixed text
\* followed by filterValidationReasoning.slice(0, 200) (line 137); the other
\* reasons are short fixed texts with a number.
ReasonText(t, reason) ==
  IF reason = "Filter stage marked as invalid"
    THEN CharsText(FilterStagePrefix \o SliceChars(t.reasoning, QuoteMax))
    ELSE Run("r", 40)

\* The same for each stored prediction, computed once.
ReasonTextOf ==
  [p \in Preds |->
     ReasonText(Prediction(p), shouldValidatePrediction(Prediction(p)).reason)]

\* validatePrediction lines 438-446: proof is preCheck.reason.
RejectedResult(reason, text) ==
  [outcome |-> "Invalid", proof |-> reason, len |-> Length(text),
   text |-> text, sources |-> 0, sourceIdx |-> <<>>]

\* The missing-text result reported as missing context.
NoTextAsMissingContext ==
  [outcome |-> "MissingContext", proof |-> "Unable to extract prediction text",
   len |-> 33, text |-> Run("t", 33), sources |-> 0, sourceIdx |-> <<>>]

NoTextResult ==
  [outcome |-> "Invalid", proof |-> "Unable to extract prediction text",
   len |-> 33, text |-> Run("t", 33), sources |-> 0, sourceIdx |-> <<>>]

\* An empty result list reported like a thrown adapter error.
NoSearchAsError ==
  [outcome |-> "Invalid", proof |-> "Validation error: ", len |-> 23,
   text |-> Run("e", 23), sources |-> 0, sourceIdx |-> <<>>]

NoSearchResult ==
  [outcome |-> "MissingContext", proof |-> "No search results found",
   len |-> 23, text |-> Run("n", 23), sources |-> 0, sourceIdx |-> <<>>]

\* Validator.extractGoalText: "" without goal slices, else the sliced text.
extractGoalText(t) == IF t.goal = "none" THEN "" ELSE "goal"

\* extractGoalText queries the database only for a slice of another tweet.
NeedsFetch(t) == t.goal = "cross"

PredOf(w) == Val(leased[w])
TupleOf(w) == Prediction(PredOf(w))

\* ----------------------------------------------------------- the pipeline
\* The pre-check before the prediction text.
StagesExtractFirst(t) == <<"extraction", "prefilter">>

\* validatePrediction lines 434-450: the stages that complete before the
\* first chat call. The pre-check comes first; extractGoalText is called only
\* when it passed and prediction_context is empty.
StagesAtValidate(t) ==
  IF shouldValidatePrediction(t).shouldValidate /\ t.context = ""
    THEN <<"prefilter", "extraction">>
    ELSE <<"prefilter">>

\* runWorker line 154: extractGoalText for the log lines, then "Validating"
\* and the call of validatePrediction.
ExtractForLog(w) ==
  /\ pc[w] = "extract"
  /\ pc' = [pc EXCEPT ![w] = "validate"]
  /\ activity' = [activity EXCEPT ![w] = "Validating"]
  /\ stages' = [stages EXCEPT ![w] = @ \o <<"extraction">>]
  /\ UNCHANGED << leased, cand, combined, result, calls, txRows, fault,
                  validationResult, costLog, session, shouldStop, now, faults,
                  lastJudgment, saidSufficient, pastAttempts, exitCode, config >>

\* getThreadTweet fails inside extractGoalText (runWorker line 154, or
\* validatePrediction line 450, which is outside its try block): the
\* transaction callback throws.
ExtractFails(w) ==
  /\ pc[w] \in {"extract", "validate"}
  /\ NeedsFetch(TupleOf(w))
  /\ pc[w] = "validate" =>
       /\ shouldValidatePrediction(TupleOf(w)).shouldValidate
       /\ TupleOf(w).context = ""
  /\ DbFaultPossible
  /\ faults' = faults + 1
  /\ fault' = [fault EXCEPT ![w].db = TRUE]
  /\ pc' = [pc EXCEPT ![w] = "rollback"]
  /\ UNCHANGED << leased, cand, combined, result, calls, txRows, activity,
                  validationResult, costLog, session, shouldStop, now,
                  lastJudgment, saidSufficient, pastAttempts, stages, exitCode,
                  config >>

\* validatePrediction lines 434-478: pre-filter, prediction text, and the
\* call of enhanceMultiple (INITIAL_QUERIES parallel chat calls).
ValidateStart(w) ==
  /\ pc[w] = "validate"
  /\ LET t == TupleOf(w)
         preCheck == shouldValidatePrediction(t)
         predictionText == IF t.context # "" THEN t.context ELSE extractGoalText(t)
     IN IF ~preCheck.shouldValidate
          THEN /\ result' = [result EXCEPT ![w] = 
                      RejectedResult(preCheck.reason, ReasonTextOf[PredOf(w)])]
               /\ pc' = [pc EXCEPT ![w] = "store"]
               /\ calls' = calls
        ELSE IF predictionText = ""
          THEN /\ result' = [result EXCEPT ![w] = NoTextResult]
               /\ pc' = [pc EXCEPT ![w] = "store"]
               /\ calls' = calls
        ELSE /\ result' = result
             /\ pc' = [pc EXCEPT ![w] = "enhance"]
             /\ calls' = [calls EXCEPT ![w].enhance = @ + Min(INITIAL_QUERIES, 3)]
  /\ stages' = [stages EXCEPT ![w] = @ \o StagesAtValidate(TupleOf(w))]
  /\ UNCHANGED << leased, cand, combined, txRows, fault, activity,
                  validationResult, costLog, session, shouldStop, now, faults,
                  lastJudgment, saidSufficient, pastAttempts, exitCode, config >>

\* A chat call of the pending enhancer or judge step throws: the catch
\* block of validatePrediction returns the "Validation error" result.
ChatFails(w) ==
  /\ pc[w] \in {"enhance", "judge", "refine", "judge2"}
  /\ \E msgLen \in ErrorMessageLens :
       result' = [result EXCEPT ![w] = ErrorResult(msgLen)]
  /\ fault' = [fault EXCEPT ![w].chat = TRUE]
  /\ pc' = [pc EXCEPT ![w] = "store"]
  /\ UNCHANGED << leased, cand, combined, calls, txRows, activity,
                  validationResult, costLog, session, shouldStop, now, faults,
                  lastJudgment, saidSufficient, pastAttempts, stages, exitCode,
                  config >>

\* Lines 480-491: the queries came back; one searchMultiple call per query.
EnhanceReturns(w) ==
  /\ pc[w] = "enhance"
  /\ pc' = [pc EXCEPT ![w] = "search"]
  /\ calls' = [calls EXCEPT ![w].search = @ + INITIAL_QUERIES]
  /\ stages' = [stages EXCEPT ![w] = @ \o <<"enhancement">>]
  /\ UNCHANGED << leased, cand, combined, result, txRows, fault, activity,
                  validationResult, costLog, session, shouldStop, now, faults,
                  lastJudgment, saidSufficient, pastAttempts, exitCode, config >>

\* The check of the combined list that lets every list through.
HasNoResultsNever(n) == FALSE

\* validatePrediction line 505: combinedResults.length === 0.
HasNoResults(n) == n = 0

\* Lines 491-521: the result sets are flattened; an empty list ends the
\* validation, otherwise the judge is called.
SearchReturns(w) ==
  /\ pc[w] = "search"
  /\ \E r1 \in SearchResponses, r2 \in SearchResponses :
       LET n == searchMultiple(r1, RESULTS_PER_QUERY)
                  + searchMultiple(r2, RESULTS_PER_QUERY)
       IN /\ combined' = [combined EXCEPT ![w] = n]
          /\ fault' = [fault EXCEPT ![w].search = SearchFailed(r1) \/ SearchFailed(r2)]
          /\ IF HasNoResults(n)
               THEN /\ result' = [result EXCEPT ![w] = NoSearchResult]
                    /\ pc' = [pc EXCEPT ![w] = "store"]
                    /\ calls' = calls
               ELSE /\ result' = result
                    /\ pc' = [pc EXCEPT ![w] = "judge"]
                    /\ calls' = [calls EXCEPT ![w].judge = @ + 1]
  /\ stages' = [stages EXCEPT ![w] = @ \o <<"search">>]
  /\ UNCHANGED << leased, cand, txRows, activity, validationResult, costLog,
                  session, shouldStop, now, faults, lastJudgment,
                  saidSufficient, pastAttempts, exitCode, config >>

\* Lines 522-561 and 592-642: the first judgment came back. Insufficient and
\* below MAX_TOTAL_RESULTS: the refinement query is requested. Otherwise the
\* outcome is mapped, the proof built, and writeCostLog called.
JudgeReturns(w) ==
  /\ pc[w] = "judge"
  /\ \E reply \in JudgeReplies :
       LET judgment == evaluate(reply)
       IN /\ saidSufficient' = [saidSufficient EXCEPT ![w] = reply.sufficient]
          /\ IF ~judgment.sufficient /\ combined[w] < MAX_TOTAL_RESULTS
               THEN /\ pc' = [pc EXCEPT ![w] = "refine"]
                    /\ calls' = [calls EXCEPT ![w].enhance = @ + 1]
                    /\ result' = result
                    /\ lastJudgment' = lastJudgment
                    /\ pastAttempts' =
                         [pastAttempts EXCEPT ![w] =
                            PastAttempts(InitialQueries, judgment)]
               ELSE /\ pc' = [pc EXCEPT ![w] = "costlog"]
                    /\ calls' = calls
                    /\ pastAttempts' = pastAttempts
                    /\ lastJudgment' = [lastJudgment EXCEPT ![w] = judgment]
                    /\ result' = [result EXCEPT ![w] =
                                    JudgedResult(judgment, combined[w])]
  /\ stages' = [stages EXCEPT ![w] = @ \o <<"judgment">>]
  /\ UNCHANGED << leased, cand, combined, txRows, fault, activity,
                  validationResult, costLog, session, shouldStop, now, faults, exitCode,
                  config >>

\* Lines 562-573: the refined query came back; one more searchMultiple call.
RefineReturns(w) ==
  /\ pc[w] = "refine"
  /\ pc' = [pc EXCEPT ![w] = "search2"]
  /\ calls' = [calls EXCEPT ![w].search = @ + 1]
  /\ stages' = [stages EXCEPT ![w] = @ \o <<"enhancement">>]
  /\ UNCHANGED << leased, cand, combined, result, txRows, fault, activity,
                  validationResult, costLog, session, shouldStop, now, faults,
                  lastJudgment, saidSufficient, pastAttempts, exitCode, config >>

\* Lines 574-582: the refined results are appended and the judge called again.
Search2Returns(w) ==
  /\ pc[w] = "search2"
  /\ \E r \in SearchResponses :
       /\ combined' = [combined EXCEPT ![w] = @ + searchMultiple(r, RESULTS_PER_QUERY)]
       /\ fault' = [fault EXCEPT ![w].search = @ \/ SearchFailed(r)]
  /\ pc' = [pc EXCEPT ![w] = "judge2"]
  /\ calls' = [calls EXCEPT ![w].judge = @ + 1]
  /\ stages' = [stages EXCEPT ![w] = @ \o <<"search">>]
  /\ UNCHANGED << leased, cand, result, txRows, activity, validationResult,
                  costLog, session, shouldStop, now, faults, lastJudgment,
                  saidSufficient, pastAttempts, exitCode, config >>

\* Lines 583-642: the second judgment came back; outcome, proof, writeCostLog.
Judge2Returns(w) ==
  /\ pc[w] = "judge2"
  /\ \E reply \in JudgeReplies :
       /\ lastJudgment' = [lastJudgment EXCEPT ![w] = evaluate(reply)]
       /\ result' = [result EXCEPT ![w] = JudgedResult(evaluate(reply), combined[w])]
  /\ pc' = [pc EXCEPT ![w] = "costlog"]
  /\ stages' = [stages EXCEPT ![w] = @ \o <<"judgment">>]
  /\ UNCHANGED << leased, cand, combined, calls, txRows, fault, activity,
                  validationResult, costLog, session, shouldStop, now, faults,
                  saidSufficient, pastAttempts, exitCode, config >>

\* The entry validatePrediction passes to writeCostLog (lines 630-642).
\* Every chat reply of a validation reports the same usage.
CostEntry(w) ==
  [prediction_id |-> PredOf(w), searchApiCalls |-> calls[w].search,
   totalInputTokens |-> (calls[w].enhance + calls[w].judge) * ReplyUsage.input,
   totalOutputTokens |-> (calls[w].enhance + calls[w].judge) * ReplyUsage.output,
   outcome |-> result[w].outcome]

\* Costs are counted in units of 1 / 3,500,000,000 dollar, in which the
\* prices are whole numbers: a search costs 100 / 35000 dollar, a million
\* input tokens 0.30 dollar and a million output tokens 2.50 dollar.
SearchPrice == 10000000
InputPrice == 1050
OutputPrice == 8750

\* CostTracker.calculateLLMCost
calculateLLMCost(inputTokens, outputTokens) ==
  inputTokens * InputPrice + outputTokens * OutputPrice

\* An updateCosts that sets the count of the entry's outcome to one.
updateCostsForgetsCount(s, entry) ==
  LET searches == s.searchApiCalls + entry.searchApiCalls
      input == s.totalInputTokens + entry.totalInputTokens
      output == s.totalOutputTokens + entry.totalOutputTokens
  IN [validated |-> s.validated + 1,
      searchApiCalls |-> searches,
      totalInputTokens |-> input,
      totalOutputTokens |-> output,
      outcomes |-> [s.outcomes EXCEPT ![entry.outcome] = 1],
      searchCost |-> searches * SearchPrice,
      llmCost |-> calculateLLMCost(input, output),
      totalCost |-> searches * SearchPrice + calculateLLMCost(input, output)]

\* CostTracker.updateCosts
updateCosts(s, entry) ==
  LET searches == s.searchApiCalls + entry.searchApiCalls
      input == s.totalInputTokens + entry.totalInputTokens
      output == s.totalOutputTokens + entry.totalOutputTokens
  IN [validated |-> s.validated + 1,
      searchApiCalls |-> searches,
      totalInputTokens |-> input,
      totalOutputTokens |-> output,
      outcomes |-> [s.outcomes EXCEPT ![entry.outcome] = @ + 1],
      searchCost |-> searches * SearchPrice,
      llmCost |-> calculateLLMCost(input, output),
      totalCost |-> searches * SearchPrice + calculateLLMCost(input, output)]

\* A writeCostLog that lets the failure of appendFile through to the catch
\* block of validatePrediction.
ResultAfterLogThrow(w) == ErrorResult(30)

\* writeCostLog catches the failure of appendFile and logs it: the result
\* validatePrediction returns is the one it had built.
ResultAfterLogFailure(w) == result[w]

\* utils.writeCostLog: the line is appended to costs.json and the tracker
\* updated with the entry, or appendFile fails, which is caught and logged;
\* validatePrediction then returns its result.
WriteCostLog(w) ==
  /\ pc[w] = "costlog"
  /\ \/ /\ costLog' = [costLog EXCEPT ![PredOf(w)] = Append(@, result[w].outcome)]
        /\ session' = updateCosts(session, CostEntry(w))
        /\ UNCHANGED << result, fault >>
     \/ /\ fault' = [fault EXCEPT ![w].log = TRUE]
        /\ result' = [result EXCEPT ![w] = ResultAfterLogFailure(w)]
        /\ UNCHANGED << costLog, session >>
  /\ pc' = [pc EXCEPT ![w] = "store"]
  /\ UNCHANGED << leased, cand, combined, calls, txRows, activity,
                  validationResult, shouldStop, now, faults, lastJudgment,
                  saidSufficient, pastAttempts, stages, exitCode, config >>

\* ------------------------------------------------------------ persistence
\* An insert of the proof as it was returned.
StoredRowUncut(r) ==
  [outcome |-> r.outcome, proof |-> r.proof, len |-> r.len, text |-> r.text,
   sources |-> Min(r.sources, SourcesMax),
   sourceIdx |-> SubSeq(r.sourceIdx, 1, Min(Len(r.sourceIdx), SourcesMax))]

\* The row storeValidationResult inserts: proof.substring(0, 700) and
\* sources.slice(0, 5).
StoredRow(r) ==
  [outcome |-> r.outcome, proof |-> r.proof,
   len |-> Length(Slice(r.text, ProofMax)), text |-> Slice(r.text, ProofMax),
   sources |-> Min(r.sources, SourcesMax),
   sourceIdx |-> SubSeq(r.sourceIdx, 1, Min(Len(r.sourceIdx), SourcesMax))]

\* validation_result has a primary key on id (a fresh random uuid) and a
\* plain index on parsed_prediction_id: no unique constraint on it.
UniquePredictionId == FALSE

\* ON CONFLICT DO NOTHING skips the insert only on a unique violation.
InsertConflicts(p) == UniquePredictionId /\ validationResult[p] # <<>>

\* storeValidationResult: the insert succeeds.
Store(w) ==
  /\ pc[w] = "store"
  /\ txRows' = [txRows EXCEPT ![w] =
                  IF InsertConflicts(PredOf(w)) THEN @ ELSE Append(@, StoredRow(result[w]))]
  /\ pc' = [pc EXCEPT ![w] = "commit"]
  /\ stages' = [stages EXCEPT ![w] = @ \o <<"persistence">>]
  /\ UNCHANGED << leased, cand, combined, result, calls, fault, activity,
                  validationResult, costLog, session, shouldStop, now, faults,
                  lastJudgment, saidSufficient, pastAttempts, exitCode, config >>

\* storeValidationResult: the insert fails; the error is logged and rethrown.
StoreFails(w) ==
  /\ pc[w] = "store"
  /\ DbFaultPossible
  /\ faults' = faults + 1
  /\ fault' = [fault EXCEPT ![w].db = TRUE]
  /\ pc' = [pc EXCEPT ![w] = "rollback"]
  /\ UNCHANGED << leased, cand, combined, result, calls, txRows, activity,
                  validationResult, costLog, session, shouldStop, now,
                  lastJudgment, saidSufficient, pastAttempts, stages, exitCode,
                  config >>

\* A commit that loses the inserted rows.
CommitLosesRows(w) == validationResult

\* An insert written as an upsert: the committed row replaces the rows the
\* prediction already has.
CommitReplacesRows(w) ==
  IF txRows[w] = <<>> THEN validationResult
  ELSE [validationResult EXCEPT ![PredOf(w)] = txRows[w]]

\* The rows visible to other transactions after w's transaction committed.
Committed(w) ==
  IF txRows[w] = <<>> THEN validationResult
  ELSE [validationResult EXCEPT ![PredOf(w)] = @ \o txRows[w]]

\* The callback returned the result: db.transaction commits.
Commit(w) ==
  /\ pc[w] = "commit"
  /\ validationResult' = Committed(w)
  /\ txRows' = [txRows EXCEPT ![w] = <<>>]
  /\ pc' = [pc EXCEPT ![w] = "loop"]
  /\ Forget(w)
  /\ UNCHANGED << cand, activity, costLog, session, shouldStop, now, faults, exitCode,
                  config >>

\* COMMIT fails: db.transaction throws.
CommitFails(w) ==
  /\ pc[w] = "commit"
  /\ DbFaultPossible
  /\ faults' = faults + 1
  /\ fault' = [fault EXCEPT ![w].db = TRUE]
  /\ pc' = [pc EXCEPT ![w] = "rollback"]
  /\ UNCHANGED << leased, cand, combined, result, calls, txRows, activity,
                  validationResult, costLog, session, shouldStop, now,
                  lastJudgment, saidSufficient, pastAttempts, stages, exitCode,
                  config >>

\* A failed transaction whose inserted rows stay visible.
RollbackKeepsRows(w) ==
  IF txRows[w] = <<>> THEN validationResult
  ELSE [validationResult EXCEPT ![PredOf(w)] = @ \o txRows[w]]

\* The rows visible to other transactions after w's transaction rolled back.
RolledBack(w) == validationResult

\* The callback threw: db.transaction rolls back and rethrows; runWorker's
\* catch logs, sets "Error (retrying)" and sleeps 5000 ms.
Rollback(w) ==
  /\ pc[w] = "rollback"
  /\ validationResult' = RolledBack(w)
  /\ txRows' = [txRows EXCEPT ![w] = <<>>]
  /\ activity' = [activity EXCEPT ![w] = "Error (retrying)"]
  /\ pc' = [pc EXCEPT ![w] = "sleep_err"]
  /\ Forget(w)
  /\ UNCHANGED << cand, costLog, session, shouldStop, now, faults, exitCode, config >>

\* sleep(10000) or sleep(5000) is over: back to the loop test.
Wake(w) ==
  /\ pc[w] \in {"sleep", "sleep_err"}
  /\ pc' = [pc EXCEPT ![w] = "loop"]
  /\ UNCHANGED << leased, cand, combined, result, calls, txRows, fault,
                  activity, validationResult, costLog, session, shouldStop,
                  now, faults, lastJudgment, saidSufficient, pastAttempts,
                  stages, exitCode, config >>

\* A stop hook that is also read at the awaits inside the transaction.
StopCheckedAtAwaits == {"loop", "enhance", "search", "judge", "store"}

\* The pcs at which runWorker reads stopHook(): the while test, nowhere else.
StopChecked == {"loop"}

\* stopHook() is true at the loop test: "Worker stopped".
WorkerStops(w) ==
  /\ w <= concurrency
  /\ pc[w] \in StopChecked
  /\ stopHook
  /\ pc' = [pc EXCEPT ![w] = "stopped"]
  /\ activity' = [activity EXCEPT ![w] = "Stopped"]
  /\ UNCHANGED << leased, cand, combined, result, calls, txRows, fault,
                  validationResult, costLog, session, shouldStop, now, faults,
                  lastJudgment, saidSufficient, pastAttempts, stages, exitCode,
                  config >>

\* SIGINT / SIGTERM: cleanup() sets shouldStop.
Signal ==
  /\ ~shouldStop
  /\ shouldStop' = TRUE
  /\ UNCHANGED << pc, leased, cand, combined, result, calls, txRows, fault,
                  activity, validationResult, costLog, session, now, faults,
                  lastJudgment, saidSufficient, pastAttempts, stages, exitCode,
                  config >>

\* Time passes.
Tick ==
  /\ now < MaxNow
  /\ now' = now + 1
  /\ UNCHANGED << pc, leased, cand, combined, result, calls, txRows, fault,
                  activity, validationResult, costLog, session, shouldStop,
                  faults, lastJudgment, saidSufficient, pastAttempts, stages, exitCode,
                  config >>

\* runValidator lines 245-250: Promise.all(workers) resolves once every
\* runWorker promise has, then process.exit(0).
SupervisorExits ==
  /\ exitCode = Null
  /\ \A w \in Workers : w <= concurrency => pc[w] = "stopped"
  /\ exitCode' = Some(0)
  /\ UNCHANGED << pc, leased, cand, combined, result, calls, txRows, fault,
                  activity, validationResult, costLog, session, shouldStop,
                  now, faults, lastJudgment, saidSufficient, pastAttempts,
                  stages, config >>

Next ==
  \/ \E w \in Workers :
       \/ BeginTransaction(w) \/ LeaseLock(w) \/ LeaseFails(w) \/ CommitEmpty(w)
       \/ ExtractForLog(w) \/ ExtractFails(w) \/ ValidateStart(w) \/ ChatFails(w)
       \/ EnhanceReturns(w) \/ SearchReturns(w) \/ JudgeReturns(w)
       \/ RefineReturns(w) \/ Search2Returns(w) \/ Judge2Returns(w)
       \/ WriteCostLog(w) \/ Store(w) \/ StoreFails(w) \/ Commit(w)
       \/ CommitFails(w) \/ Rollback(w) \/ Wake(w) \/ WorkerStops(w)
  \/ Signal
  \/ Tick
  \/ SupervisorExits

Spec == Init /\ [][Next]_vars

SpecPipeline == InitPipeline /\ [][Next]_vars

\* ------------------------------------------------------ shutdown, fairly
\* The steps of worker w in which the awaited call returns: a chat or search
\* exception is caught inside validatePrediction and is a return here; a
\* database statement that throws is not.
WorkerReturns(w) ==
  \/ BeginTransaction(w) \/ LeaseLock(w) \/ CommitEmpty(w)
  \/ ExtractForLog(w) \/ ValidateStart(w) \/ ChatFails(w)
  \/ EnhanceReturns(w) \/ SearchReturns(w) \/ JudgeReturns(w)
  \/ RefineReturns(w) \/ Search2Returns(w) \/ Judge2Returns(w)
  \/ WriteCostLog(w) \/ Store(w) \/ Commit(w) \/ Wake(w) \/ WorkerStops(w)

NextReturns ==
  \/ \E w \in Workers : WorkerReturns(w)
  \/ Signal
  \/ Tick
  \/ SupervisorExits

\* Every pending call of a worker returns, timers fire, and the event loop
\* runs the continuation of every settled promise.
Fairness ==
  /\ \A w \in Workers : WF_vars(WorkerReturns(w))
  /\ WF_vars(SupervisorExits)

SpecShutdown == Init /\ [][NextReturns]_vars /\ Fairness

\* --------------------------------------------- a prediction that keeps failing
\* extractGoalText throws for the leased prediction whenever it fetches the
\* thread tweet (runWorker line 154, validatePrediction line 450), on every
\* attempt: a slice whose source.tweet_id BigInt() cannot convert, or a fetch
\* the database answers with an error. Nothing records the failed attempt.
ExtractThrows(w) ==
  /\ pc[w] \in {"extract", "validate"}
  /\ NeedsFetch(TupleOf(w))
  /\ pc[w] = "validate" =>
       /\ shouldValidatePrediction(TupleOf(w)).shouldValidate
       /\ TupleOf(w).context = ""
  /\ fault' = [fault EXCEPT ![w].db = TRUE]
  /\ pc' = [pc EXCEPT ![w] = "rollback"]
  /\ UNCHANGED << leased, cand, combined, result, calls, txRows, activity,
                  validationResult, costLog, session, shouldStop, now, faults,
                  lastJudgment, saidSufficient, pastAttempts, stages,
                  exitCode, config >>

\* The steps of a running worker whose awaited call returns or whose
\* transaction unwinds; no stop signal arrives.
WorkerProgress(w) ==
  \/ BeginTransaction(w) \/ LeaseLock(w) \/ CommitEmpty(w)
  \/ ExtractForLog(w) \/ ValidateStart(w) \/ ChatFails(w)
  \/ EnhanceReturns(w) \/ SearchReturns(w) \/ JudgeReturns(w)
  \/ RefineReturns(w) \/ Search2Returns(w) \/ Judge2Returns(w)
  \/ WriteCostLog(w) \/ Store(w) \/ Commit(w) \/ Rollback(w) \/ Wake(w)

NextProgress ==
  \/ \E w \in Workers : WorkerProgress(w) \/ ExtractThrows(w)
  \/ Tick

\* One or all workers run over the oldest prediction, whose goal text needs
\* a fetch, and a later one that needs none.
InitProgress ==
  /\ InitState
  /\ concurrency \in 1..NumWorkers
  /\ stored = {2, 5}
  /\ wide = FALSE
  /\ probe = NoProbe
  /\ judgeProbe = NoJudgeProbe
  /\ textProbe = NoTextProbe
  /\ searchProbe = NoSearchProbe
  /\ goalProbe = NoGoalProbe
  /\ trackerProbe = NoTrackerProbe

\* Every step a running worker can take is eventually taken; which way a
\* step goes is not constrained.
FairProgress == \A w \in Workers : WF_vars(WorkerProgress(w))

SpecProgress == InitProgress /\ [][NextProgress]_vars /\ FairProgress

\* ------------------------------------------- lease predicate vs pre-filter
\* The joined rows the upstream pipeline can store, field by field: null,
\* below, at and above each threshold; a reasoning that is null, clean, or
\* holds a keyword (in either case).
ProbeTuples ==
  [ start : {Null, Some(0), Some(2)},
    end : {Null, Some(1)},
    status : {NullStr, "missing", "explicit"},
    reasoning : { <<>>, ClearClaim,
                  TooVagueToCheck,
                  IsNotAPrediction },
    fvc : {Null, Some(FILTER_VALIDATION_CONFIDENCE_MIN - 1),
           Some(FILTER_VALIDATION_CONFIDENCE_MIN)},
    quality : {Null, Some(PREDICTION_QUALITY_MIN - 1), Some(PREDICTION_QUALITY_MIN)},
    llm : {Null, Some(LLM_CONFIDENCE_MIN - 1), Some(LLM_CONFIDENCE_MIN)},
    vagueness : {Null, Some(VAGUENESS_MAX), Some(VAGUENESS_MAX + 1)},
    context : {"ctx"},
    goal : {"local"} ]

\* No worker runs; one joined row is put to both filters.
InitFilter ==
  /\ InitState
  /\ concurrency = 0
  /\ stored = {}
  /\ wide = FALSE
  /\ \E t \in ProbeTuples, at \in 0..MaxNow :
       probe = [NoProbe EXCEPT !.t = t, !.at = at]
  /\ judgeProbe = NoJudgeProbe
  /\ textProbe = NoTextProbe
  /\ searchProbe = NoSearchProbe
  /\ goalProbe = NoGoalProbe
  /\ trackerProbe = NoTrackerProbe

\* The WHERE clause of getNextPredictionToValidate decides on the row.
ProbeLease ==
  /\ ~probe.leaseRan
  /\ probe' = [probe EXCEPT !.leaseRan = TRUE,
                            !.returned = LeasePredicate(probe.t, probe.at)]
  /\ UNCHANGED << pc, leased, cand, combined, result, calls, txRows, fault,
                  activity, validationResult, costLog, session, shouldStop,
                  now, faults, concurrency, stored, wide, judgeProbe,
                  textProbe, lastJudgment, saidSufficient, pastAttempts,
                  stages, exitCode,
                  searchProbe, goalProbe, trackerProbe >>

\* shouldValidatePrediction decides on the row.
ProbePreFilter ==
  /\ ~probe.checkRan
  /\ probe' = [probe EXCEPT !.checkRan = TRUE,
                            !.check = shouldValidatePrediction(probe.t)]
  /\ UNCHANGED << pc, leased, cand, combined, result, calls, txRows, fault,
                  activity, validationResult, costLog, session, shouldStop,
                  now, faults, concurrency, stored, wide, judgeProbe,
                  textProbe, lastJudgment, saidSufficient, pastAttempts,
                  stages, exitCode,
                  searchProbe, goalProbe, trackerProbe >>

NextFilter == ProbeLease \/ ProbePreFilter

SpecFilter == InitFilter /\ [][NextFilter]_vars

\* ------------------------------------------------------ the judge's parsing
\* What extractXML returns for the <score> tag of a reply: "" for a missing
\* or empty tag, else the trimmed content, which the model writes freely.
ScoreStrs ==
  { <<>>, <<"0">>, <<"1">>, <<"2">>, <<"3">>, <<"4">>, <<"5">>, <<"6">>,
    <<"7">>, <<"8">>, <<"9">>, <<"1", "0">>, <<"1", "1">>, <<"-", "1">>,
    <<"0", "7">>, <<"7", ".", "5">>, <<"8", "/", "1", "0">>,
    <<"h", "i", "g", "h">> }

\* What extractXML returns for the <decision> tag.
DecisionStrs == {"TRUE", "FALSE", "INCONCLUSIVE", "", "true", "MAYBE"}

\* No worker runs; one reply is put to the judge.
InitJudge ==
  /\ InitState
  /\ concurrency = 0
  /\ stored = {}
  /\ wide = FALSE
  /\ probe = NoProbe
  /\ \E scoreStr \in ScoreStrs, decision \in DecisionStrs :
       judgeProbe = [NoJudgeProbe EXCEPT !.scoreStr = scoreStr,
                                         !.decision = decision]
  /\ textProbe = NoTextProbe
  /\ searchProbe = NoSearchProbe
  /\ goalProbe = NoGoalProbe
  /\ trackerProbe = NoTrackerProbe

\* ResultJudge.evaluate parses the reply and returns its Judgment.
ProbeEvaluate ==
  /\ ~judgeProbe.ran
  /\ judgeProbe' =
       [judgeProbe EXCEPT
          !.ran = TRUE,
          !.judgment =
            evaluate([decision |-> judgeProbe.decision,
                      score |-> parseInt(judgeProbe.scoreStr),
                      lens |-> [summary |-> 40, evidence |-> 0, reasoning |-> 0],
                      sufficient |-> FALSE])]
  /\ UNCHANGED << pc, leased, cand, combined, result, calls, txRows, fault,
                  activity, validationResult, costLog, session, shouldStop,
                  now, faults, concurrency, stored, wide, probe, textProbe,
                  lastJudgment, saidSufficient, pastAttempts, stages, exitCode,
                  searchProbe, goalProbe, trackerProbe >>

NextJudge == ProbeEvaluate

SpecJudge == InitJudge /\ [][NextJudge]_vars

\* ------------------------------------------------------------ truncation
\* Texts of one or two runs, of the lengths around 697 and 700 and beyond,
\* some of them ending in dots.
ProbeCounts == {1, 3, 350, 696, 697, 698, 699, 700, 701, 818}
ProbeChars == {"a", "."}
ProbeTexts ==
  {<<>>}
    \cup { Run(c, n) : c \in ProbeChars, n \in ProbeCounts }
    \cup { Concat(Run(c, n), Run(d, m)) :
             c \in ProbeChars, d \in ProbeChars, n \in ProbeCounts,
             m \in ProbeCounts }

\* No worker runs; one text is put to truncateText.
InitText ==
  /\ InitState
  /\ concurrency = 0
  /\ stored = {}
  /\ wide = FALSE
  /\ probe = NoProbe
  /\ judgeProbe = NoJudgeProbe
  /\ \E text \in ProbeTexts : textProbe = [NoTextProbe EXCEPT !.text = text]
  /\ searchProbe = NoSearchProbe
  /\ goalProbe = NoGoalProbe
  /\ trackerProbe = NoTrackerProbe

\* truncateText(text, 700)
ProbeTruncate ==
  /\ textProbe.step = 0
  /\ textProbe' = [textProbe EXCEPT !.step = 1,
                                    !.once = truncateText(textProbe.text, 700)]
  /\ UNCHANGED << pc, leased, cand, combined, result, calls, txRows, fault,
                  activity, validationResult, costLog, session, shouldStop,
                  now, faults, concurrency, stored, wide, probe, judgeProbe,
                  lastJudgment, saidSufficient, pastAttempts, stages, exitCode,
                  searchProbe, goalProbe, trackerProbe >>

\* truncateText on the text truncateText returned.
ProbeTruncateAgain ==
  /\ textProbe.step = 1
  /\ textProbe' = [textProbe EXCEPT !.step = 2,
                                    !.twice = truncateText(textProbe.once, 700)]
  /\ UNCHANGED << pc, leased, cand, combined, result, calls, txRows, fault,
                  activity, validationResult, costLog, session, shouldStop,
                  now, faults, concurrency, stored, wide, probe, judgeProbe,
                  lastJudgment, saidSufficient, pastAttempts, stages, exitCode,
                  searchProbe, goalProbe, trackerProbe >>

NextText == ProbeTruncate \/ ProbeTruncateAgain

SpecText == InitText /\ [][NextText]_vars

\* ------------------------------------------- keywords in the filter reasoning
UpperChar(c) ==
  IF \E i \in 1..Len(LowerCase) : LowerCase[i] = c
    THEN UpperCase[CHOOSE i \in 1..Len(LowerCase) : LowerCase[i] = c]
    ELSE c

Fill(c, n) == [i \in 1..n |-> c]

\* A keyword as the upstream filter may have written it.
Cased(s, casing) ==
  CASE casing = "upper" -> [i \in 1..Len(s) |-> UpperChar(s[i])]
    [] casing = "mixed" ->
         [i \in 1..Len(s) |-> IF i % 2 = 1 THEN UpperChar(s[i]) ELSE s[i]]
    [] OTHER -> s

\* A reasoning with keyword k (none for k = 0) planted after `before`
\* letters and followed by `after` letters, with no space around it.
Planted(plant) ==
  Fill("x", plant.before)
    \o (IF plant.k = 0 THEN <<>>
        ELSE Cased(invalidKeywordList[plant.k], plant.casing))
    \o Fill("y", plant.after)

ProbePlants ==
  [k : 0..Len(invalidKeywordList), casing : {"lower", "upper", "mixed"},
   before : {0, 1, 195, 230}, after : {0, 5}]

\* Rows that pass every timeframe and numeric check of the pre-filter.
PassingTuples ==
  { CleanTuple,
    [CleanTuple EXCEPT !.start = Null, !.fvc = Null, !.quality = Null,
                       !.llm = Null, !.vagueness = Null] }

\* No worker runs; one joined row with a planted reasoning is drawn.
InitKeyword ==
  /\ InitState
  /\ concurrency = 0
  /\ stored = {}
  /\ wide = FALSE
  /\ \E t \in PassingTuples, plant \in ProbePlants :
       probe = [NoProbe EXCEPT !.t = [t EXCEPT !.reasoning = Planted(plant)],
                               !.plant = plant]
  /\ judgeProbe = NoJudgeProbe
  /\ textProbe = NoTextProbe
  /\ searchProbe = NoSearchProbe
  /\ goalProbe = NoGoalProbe
  /\ trackerProbe = NoTrackerProbe

\* validatePrediction lines 436-446 on the row: the pre-check, and the
\* Invalid result when it rejects.
ProbeReject ==
  /\ ~probe.checkRan
  /\ LET preCheck == shouldValidatePrediction(probe.t)
     IN probe' =
          [probe EXCEPT
             !.checkRan = TRUE,
             !.check = preCheck,
             !.rejected =
               IF preCheck.shouldValidate THEN NoResult
               ELSE RejectedResult(preCheck.reason,
                                   ReasonText(probe.t, preCheck.reason))]
  /\ UNCHANGED << pc, leased, cand, combined, result, calls, txRows, fault,
                  activity, validationResult, costLog, session, shouldStop,
                  now, faults, concurrency, stored, wide, judgeProbe,
                  textProbe, lastJudgment, saidSufficient, pastAttempts,
                  stages, exitCode, searchProbe, goalProbe, trackerProbe >>

\* storeValidationResult on the rejected result.
ProbeStoreRejected ==
  /\ probe.checkRan
  /\ probe.rejected # NoResult
  /\ probe.row = NoResult
  /\ probe' = [probe EXCEPT !.row = StoredRow(probe.rejected)]
  /\ UNCHANGED << pc, leased, cand, combined, result, calls, txRows, fault,
                  activity, validationResult, costLog, session, shouldStop,
                  now, faults, concurrency, stored, wide, judgeProbe,
                  textProbe, lastJudgment, saidSufficient, pastAttempts,
                  stages, exitCode, searchProbe, goalProbe, trackerProbe >>

NextKeyword == ProbeReject \/ ProbeStoreRejected

SpecKeyword == InitKeyword /\ [][NextKeyword]_vars

\* ------------------------------------------------------ the prediction text
\* The scraped_tweet rows of the thread: the leased tweet and another one;
\* no row has the id "gone".
CurrentTweetId == "cur"
Thread ==
  [ cur |-> << "a", "b", "c", "d", "e" >>,
    other |-> << "v", "w", "x", "y", "z" >> ]

NoSource == "<none>"

\* getThreadTweet: the text of the row with that id, null without one.
getThreadTweet(tweetId) ==
  IF tweetId \in DOMAIN Thread THEN Some(Thread[tweetId]) ELSE Null

\* String.prototype.slice(start, end): negative offsets count from the end,
\* offsets are clipped to the text, an empty range gives "".
JsSlice(text, start, end) ==
  LET len == Len(text)
      from == IF start < 0 THEN (IF len + start < 0 THEN 0 ELSE len + start)
              ELSE Min(start, len)
      to == IF end < 0 THEN (IF len + end < 0 THEN 0 ELSE len + end)
            ELSE Min(end, len)
  IN IF from >= to THEN <<>> ELSE SubSeq(text, from + 1, to)

\* Array.prototype.join(" ")
RECURSIVE Join(_)
Join(texts) ==
  IF Len(texts) = 0 THEN <<>>
  ELSE IF Len(texts) = 1 THEN texts[1]
  ELSE texts[1] \o <<" ">> \o Join(Tail(texts))

NonEmpty(text) == Len(text) > 0

\* Every slice read from the leased tweet, whatever its source.
TextOfSliceCurrent(slice, tweetTexts) == Some(Thread[CurrentTweetId])

\* Lines 369-371: the tweet a slice is cut from, looked up in tweetTexts
\* (undefined, Null here, when the fetch found no row).
TextOfSlice(slice, tweetTexts) ==
  LET tweetId == IF slice.source # NoSource THEN slice.source ELSE CurrentTweetId
  IN IF tweetId \in DOMAIN tweetTexts THEN Some(tweetTexts[tweetId]) ELSE Null

\* Validator.extractGoalText on goal slices over the thread.
extractGoalSlices(goalSlices) ==
  LET currentTweetText == Thread[CurrentTweetId]
      IsCross(slice) == slice.source # NoSource /\ slice.source # CurrentTweetId
      crossTweetSlices == SelectSeq(goalSlices, IsCross)
      fetched == { crossTweetSlices[i].source : i \in 1..Len(crossTweetSlices) }
      found == { id \in fetched :
                   ~IsNull(getThreadTweet(id)) /\ NonEmpty(Val(getThreadTweet(id))) }
      tweetTexts == [id \in {CurrentTweetId} \cup found |-> Thread[id]]
      Extracted(slice) ==
        LET text == TextOfSlice(slice, tweetTexts)
        IN IF IsNull(text) \/ ~NonEmpty(Val(text)) THEN <<>>
           ELSE JsSlice(Val(text), slice.start, slice.end)
      Local(slice) == JsSlice(currentTweetText, slice.start, slice.end)
  IN IF Len(goalSlices) = 0 THEN <<>>
     ELSE IF Len(crossTweetSlices) > 0
       THEN Join(SelectSeq([i \in 1..Len(goalSlices) |-> Extracted(goalSlices[i])],
                           NonEmpty))
     ELSE Join(SelectSeq([i \in 1..Len(goalSlices) |-> Local(goalSlices[i])],
                         NonEmpty))

ProbeSlices ==
  [start : {0, 1, 4}, end : {0, 2, 5, 9},
   source : {NoSource, CurrentTweetId, "other", "gone"}]
ProbeGoals ==
  {<<>>} \cup {<<a>> : a \in ProbeSlices}
         \cup {<<a, b>> : a \in ProbeSlices, b \in ProbeSlices}
ProbeContexts == { <<>>, << "c", "t", "x" >> }

\* No worker runs; the details of one leased prediction are drawn.
InitGoal ==
  /\ InitState
  /\ concurrency = 0
  /\ stored = {}
  /\ wide = FALSE
  /\ probe = NoProbe
  /\ judgeProbe = NoJudgeProbe
  /\ textProbe = NoTextProbe
  /\ searchProbe = NoSearchProbe
  /\ \E context \in ProbeContexts, goal \in ProbeGoals :
       goalProbe = [NoGoalProbe EXCEPT !.context = context, !.goal = goal]
  /\ trackerProbe = NoTrackerProbe

\* validatePrediction lines 448-450: predictionContext || extractGoalText(...)
ProbePredictionText ==
  /\ ~goalProbe.ran
  /\ goalProbe' =
       [goalProbe EXCEPT
          !.ran = TRUE,
          !.predictionText =
            IF NonEmpty(goalProbe.context) THEN goalProbe.context
            ELSE extractGoalSlices(goalProbe.goal)]
  /\ UNCHANGED << pc, leased, cand, combined, result, calls, txRows, fault,
                  activity, validationResult, costLog, session, shouldStop,
                  now, faults, concurrency, stored, wide, probe, judgeProbe,
                  textProbe, lastJudgment, saidSufficient, pastAttempts,
                  stages, exitCode, searchProbe, trackerProbe >>

NextGoal == ProbePredictionText

SpecGoal == InitGoal /\ [][NextGoal]_vars

\* ------------------------------------------------- the combined result list
\* The provider's answer to one request, entry by entry: n organic results in
\* the provider's order, those at the ranks in unlinked without a link.
ProbeUnlinked == { {}, {1}, {2, 11} }
ProbeResponses ==
  [kind : {"ok"}, n : {0, 2, 11, 12}, unlinked : ProbeUnlinked]
    \cup [kind : {"network_error", "http_error", "api_error"}, n : {0},
          unlinked : {{}}]

organic_results(query, resp) ==
  [i \in 1..resp.n |-> [query |-> query, rank |-> i, link |-> i \notin resp.unlinked]]

HasLink(r) == r.link

\* searchMultiple lines 97-111, as a list: the results with a link, in the
\* provider's order, cut to maxResults; [] on every failure.
searchMultipleList(query, resp, maxResults) ==
  IF resp.kind # "ok" THEN <<>>
  ELSE LET linked == SelectSeq(organic_results(query, resp), HasLink)
       IN SubSeq(linked, 1, Min(Len(linked), maxResults))

\* The result sets joined last query first.
RECURSIVE FlatReversed(_)
FlatReversed(sets) ==
  IF sets = <<>> THEN <<>> ELSE FlatReversed(Tail(sets)) \o Head(sets)

\* Array.prototype.flat() over the result sets of Promise.all, which keeps
\* the order of the promises it was given.
RECURSIVE Flat(_)
Flat(sets) == IF sets = <<>> THEN <<>> ELSE Head(sets) \o Flat(Tail(sets))

RefinedQuery == INITIAL_QUERIES + 1

\* No worker runs; the provider's answers to the two initial queries and to
\* the refined query are drawn.
InitSearch ==
  /\ InitState
  /\ concurrency = 0
  /\ stored = {}
  /\ wide = FALSE
  /\ probe = NoProbe
  /\ judgeProbe = NoJudgeProbe
  /\ textProbe = NoTextProbe
  /\ \E rs \in [1..INITIAL_QUERIES -> ProbeResponses], r \in ProbeResponses :
       searchProbe = [NoSearchProbe EXCEPT !.responses = rs, !.refined = r]
  /\ goalProbe = NoGoalProbe
  /\ trackerProbe = NoTrackerProbe

\* validatePrediction lines 488-499: one searchMultiple per initial query,
\* Promise.all, flat().
ProbeSearchInitial ==
  /\ searchProbe.step = 0
  /\ LET sets == [q \in 1..INITIAL_QUERIES |->
                   searchMultipleList(q, searchProbe.responses[q], RESULTS_PER_QUERY)]
     IN searchProbe' = [searchProbe EXCEPT !.step = 1,
                                           !.initial = Flat(sets),
                                           !.combined = Flat(sets)]
  /\ UNCHANGED << pc, leased, cand, combined, result, calls, txRows, fault,
                  activity, validationResult, costLog, session, shouldStop,
                  now, faults, concurrency, stored, wide, probe, judgeProbe,
                  textProbe, lastJudgment, saidSufficient, pastAttempts,
                  stages, exitCode, goalProbe, trackerProbe >>

\* validatePrediction lines 505-576: with a non-empty list of fewer than
\* MAX_TOTAL_RESULTS entries (the judgment never says sufficient), the
\* refined query's results are appended.
ProbeSearchRefined ==
  /\ searchProbe.step = 1
  /\ Len(searchProbe.combined) # 0
  /\ Len(searchProbe.combined) < MAX_TOTAL_RESULTS
  /\ LET refinedResults ==
           searchMultipleList(RefinedQuery, searchProbe.refined, RESULTS_PER_QUERY)
     IN searchProbe' = [searchProbe EXCEPT !.step = 2,
                          !.combined = searchProbe.combined \o refinedResults]
  /\ UNCHANGED << pc, leased, cand, combined, result, calls, txRows, fault,
                  activity, validationResult, costLog, session, shouldStop,
                  now, faults, concurrency, stored, wide, probe, judgeProbe,
                  textProbe, lastJudgment, saidSufficient, pastAttempts,
                  stages, exitCode, goalProbe, trackerProbe >>

NextSearch == ProbeSearchInitial \/ ProbeSearchRefined

SpecSearch == InitSearch /\ [][NextSearch]_vars

\* ------------------------------------------------------------ cost tracker
\* CostTracker on its own: updateCosts called with any entries, between
\* updates of the workers' activities.
MaxCalls == 4

\* Entries as validatePrediction builds them: two or three searches, usage
\* reported or missing (usage?.prompt_tokens || 0), two of the outcomes.
ProbeEntries ==
  { [prediction_id |-> 1, searchApiCalls |-> n, totalInputTokens |-> u[1],
     totalOutputTokens |-> u[2], outcome |-> o] :
      n \in {INITIAL_QUERIES, INITIAL_QUERIES + 1},
      u \in {<<0, 0>>, <<120, 30>>},
      o \in {"MaturedTrue", "Invalid"} }

ProbeActivities == {"Validating", "Waiting (idle)"}

\* CostTracker.updateWorkerActivity: the worker's entry is replaced.
updateWorkerActivity(workers, workerId, a) == [workers EXCEPT ![workerId] = a]

InitTracker ==
  /\ InitState
  /\ concurrency = 0
  /\ stored = {}
  /\ wide = FALSE
  /\ probe = NoProbe
  /\ judgeProbe = NoJudgeProbe
  /\ textProbe = NoTextProbe
  /\ searchProbe = NoSearchProbe
  /\ goalProbe = NoGoalProbe
  /\ trackerProbe = NoTrackerProbe

ProbeUpdateCosts ==
  /\ trackerProbe.calls < MaxCalls
  /\ \E entry \in ProbeEntries :
       /\ session' = updateCosts(session, entry)
       /\ trackerProbe' = [calls |-> trackerProbe.calls + 1,
                           entries |-> Append(trackerProbe.entries, entry)]
  /\ UNCHANGED << pc, leased, cand, combined, result, calls, txRows, fault,
                  activity, validationResult, costLog, shouldStop,
                  now, faults, concurrency, stored, wide, probe, judgeProbe,
                  textProbe, lastJudgment, saidSufficient, pastAttempts,
                  stages, exitCode, searchProbe, goalProbe >>

ProbeUpdateWorkerActivity ==
  /\ \E w \in Workers, a \in ProbeActivities :
       activity' = updateWorkerActivity(activity, w, a)
  /\ UNCHANGED << pc, leased, cand, combined, result, calls, txRows, fault,
                  validationResult, costLog, session, shouldStop,
                  now, faults, concurrency, stored, wide, probe, judgeProbe,
                  textProbe, lastJudgment, saidSufficient, pastAttempts,
                  stages, exitCode, searchProbe, goalProbe, trackerProbe >>

NextTracker ==
  \/ ProbeUpdateCosts
  \/ ProbeUpdateWorkerActivity

SpecTracker == InitTracker /\ [][NextTracker]_vars

\* ------------------------------------------------------------ properties
HasRow(rows, outcome) == \E i \in 1..Len(rows) : rows[i].outcome = outcome

\* Worker w's db.transaction returns or throws in this step.
TxEnd(w) ==
  \/ pc[w] = "commit" /\ pc'[w] = "loop"
  \/ pc[w] = "rollback" /\ pc'[w] = "sleep_err"

\* Worker w's lease statement starts in this step.
LeaseStarts(w) == pc[w] = "loop" /\ pc'[w] = "lock"

\* C1: for every prediction P and every interleaving of concurrent workers,
\* at most one validation_result row with parsed_prediction_id = P exists.
C1_AtMostOneRow == \A p \in Preds : Len(validationResult[p]) <= 1

\* C2, as stated: every transaction that leased a prediction and met a
\* failure (goal-text extraction, chat or search adapter, insert) ends with
\* a committed Invalid row for that prediction.
C2_FailureEndsInvalid ==
  [][\A w \in Workers :
       (TxEnd(w) /\ ~IsNull(leased[w])
          /\ (fault[w].chat \/ fault[w].search \/ fault[w].db))
       => HasRow(validationResult'[PredOf(w)], "Invalid")]_vars

\* C2, amended: a transaction in which a chat call threw and no database
\* statement failed ends with a committed Invalid row for the leased
\* prediction, and no lease statement that starts later reads a prediction
\* with a committed row; a transaction in which a database statement failed
\* (the fetch of goal-text extraction, the insert, the commit) ends with the
\* committed rows unchanged.
C2_ChatFailureEndsInvalid ==
  [][\A w \in Workers :
       /\ (TxEnd(w) /\ ~IsNull(leased[w]) /\ fault[w].chat /\ ~fault[w].db)
            => /\ pc'[w] = "loop"
               /\ HasRow(validationResult'[PredOf(w)], "Invalid")
       /\ (TxEnd(w) /\ fault[w].db)
            => /\ pc'[w] = "sleep_err"
               /\ validationResult' = validationResult
       /\ LeaseStarts(w)
            => \A q \in cand'[w] : validationResult[q] = <<>>]_vars

\* A committed row holds the proof of a thrown chat call.
C2_Witness ==
  \E p \in Preds : \E i \in 1..Len(validationResult[p]) :
    /\ validationResult[p][i].outcome = "Invalid"
    /\ validationResult[p][i].proof = "Validation error: "

\* C3: the lease never returns a prediction for which a validation_result
\* row exists: no worker holds a lease on a prediction that has a committed
\* row.
C3_LeasedHasNoRow ==
  \A w \in Workers : \A p \in Preds :
    HoldsLock(w, p) => validationResult[p] = <<>>

\* C4: no two workers hold a lease on the same prediction; the lease
\* statement of another worker does not pick a prediction that is leased,
\* and it is never blocked (it returns another row or none).
C4_NoSharedLease ==
  \A w1 \in Workers : \A w2 \in Workers \ {w1} :
    /\ \A p \in Preds :
         HoldsLock(w1, p) =>
           /\ ~HoldsLock(w2, p)
           /\ p \notin FirstUnlocked(w2, cand[w2])
    /\ pc[w2] = "lock" => ENABLED LeaseLock(w2)

\* Two workers hold leases at once: the second one skipped prediction 2,
\* the oldest, which the first one holds.
C4_Witness ==
  \E w1 \in Workers : \E w2 \in Workers \ {w1} :
    /\ HoldsLock(w1, 2) /\ HoldsLock(w2, 1)
    /\ validationResult[2] = <<>>

\* C5: a database error raised inside a worker's transaction takes the
\* worker to the rollback; the rollback leaves the committed rows as they
\* were (no row the transaction wrote is visible, a prediction without a row
\* still has none), releases the lease, marks the worker "Error (retrying)"
\* and puts it to sleep, after which it is back at the loop test.
C5_ErrorRollsBack ==
  [][\A w \in Workers :
       /\ (fault'[w].db /\ ~fault[w].db) => pc'[w] = "rollback"
       /\ (pc[w] = "rollback" /\ pc'[w] # "rollback")
            => /\ pc'[w] = "sleep_err"
               /\ validationResult' = validationResult
               /\ txRows'[w] = <<>>
               /\ leased'[w] = Null
               /\ activity'[w] = "Error (retrying)"
       /\ (pc[w] = "sleep_err" /\ pc'[w] # "sleep_err") => pc'[w] = "loop"]_vars

\* A worker sleeps after an error that came after the validation had
\* returned (its cost line is written), and the prediction is eligible again.
C5_Witness ==
  \E w \in Workers : \E p \in stored :
    /\ pc[w] = "sleep_err"
    /\ activity[w] = "Error (retrying)"
    /\ costLog[p] # <<>>
    /\ Eligible(p, now)

\* C6: when a chat call of the Query Enhancer or the Result Judge threw,
\* the validation returned outcome Invalid with the proof "Validation error:
\* <message>" and no sources, and its transaction is at the insert, at the
\* commit with exactly that row inserted (the proof cut to 700), or at a
\* rollback that a failed database statement caused; the commit makes that
\* row the prediction's newest committed row.
C6_ChatErrorStored ==
  /\ [](\A w \in Workers :
          fault[w].chat =>
            /\ pc[w] \in {"store", "commit", "rollback"}
            /\ pc[w] = "rollback" => fault[w].db
            /\ result[w].outcome = "Invalid"
            /\ result[w].proof = "Validation error: "
            /\ result[w].len > 18
            /\ result[w].sources = 0
            /\ pc[w] = "commit" =>
                 txRows[w] = << [outcome |-> "Invalid",
                                 proof |-> "Validation error: ",
                                 len |-> Min(result[w].len, 700),
                                 text |-> Slice(result[w].text, 700),
                                 sources |-> 0, sourceIdx |-> <<>>] >>)
  /\ [][\A w \in Workers :
          (fault[w].chat /\ pc[w] = "commit" /\ pc'[w] = "loop")
          => validationResult'[PredOf(w)]
               = validationResult[PredOf(w)] \o txRows[w]]_vars

\* The second judgment threw, and the row is inserted.
C6_Witness ==
  \E w \in Workers :
    /\ pc[w] = "commit"
    /\ fault[w].chat
    /\ calls[w].judge = 2
    /\ txRows[w] # <<>>

\* C7, as stated: when a search call failed during a validation, the
\* validation returns outcome Invalid with a proof that begins
\* "Validation error: ".
C7_SearchFailureInvalid ==
  \A w \in Workers :
    (fault[w].search /\ pc[w] \in {"store", "commit"})
    => /\ result[w].outcome = "Invalid"
       /\ result[w].proof = "Validation error: "

\* C7, amended: a failed search call gives no results and raises nothing.
\* The validation returns MissingContext with proof "No search results
\* found" when the combined list is empty, the judged outcome with the
\* judge's summary as proof otherwise, and the "Validation error: " proof
\* only when a chat call threw; the row inserted is the result returned.
C7_SearchFailureTolerated ==
  \A w \in Workers :
    fault[w].search =>
      /\ pc[w] = "rollback" => fault[w].db
      /\ pc[w] \in {"store", "commit"} =>
           /\ result[w].proof = "Validation error: " <=> fault[w].chat
           /\ combined[w] = 0 =>
                /\ result[w].outcome = "MissingContext"
                /\ result[w].proof = "No search results found"
                /\ result[w].sources = 0
           /\ (combined[w] > 0 /\ ~fault[w].chat) =>
                /\ result[w].proof = "summary"
                /\ result[w].outcome \in
                     { "MaturedTrue", "MaturedMostlyTrue", "MaturedFalse",
                       "MaturedMostlyFalse", "MissingContext" }
      /\ pc[w] = "commit" =>
           /\ Len(txRows[w]) = 1
           /\ txRows[w][1].outcome = result[w].outcome
           /\ txRows[w][1].proof = result[w].proof

\* One search call failed, the other one's results were judged true.
C7_Witness ==
  \E w \in Workers :
    /\ pc[w] = "commit"
    /\ fault[w].search
    /\ result[w].outcome = "MaturedTrue"

WrittenOutcomes ==
  { "MaturedTrue", "MaturedMostlyTrue", "MaturedFalse", "MaturedMostlyFalse",
    "MissingContext", "Invalid" }

PreCheckOf == [p \in Preds |-> shouldValidatePrediction(Prediction(p))]

\* C9: for a leased prediction that fails shouldValidatePrediction no chat
\* and no search call is issued, and the result returned, the row inserted
\* and every committed row of it have outcome Invalid and no sources.
C9_RejectedOnlyInvalid ==
  /\ \A w \in Workers :
       ( /\ ~IsNull(leased[w])
         /\ calls[w] # NoCalls \/ pc[w] \in {"store", "commit"} \/ txRows[w] # <<>>
         /\ ~PreCheckOf[PredOf(w)].shouldValidate )
       => /\ calls[w] = NoCalls
          /\ pc[w] \in {"store", "commit"} =>
               /\ result[w].outcome = "Invalid"
               /\ result[w].sources = 0
          /\ \A i \in 1..Len(txRows[w]) :
               /\ txRows[w][i].outcome = "Invalid"
               /\ txRows[w][i].sources = 0
  /\ \A p \in Preds :
       ( /\ validationResult[p] # <<>>
         /\ ~PreCheckOf[p].shouldValidate )
       => \A i \in 1..Len(validationResult[p]) :
            /\ validationResult[p][i].outcome = "Invalid"
            /\ validationResult[p][i].sources = 0

\* The row of a prediction the pre-filter rejects is committed.
C9_Witness ==
  \E p \in stored :
    /\ ~shouldValidatePrediction(Prediction(p)).shouldValidate
    /\ validationResult[p] # <<>>
    /\ validationResult[p][1].proof = "Filter stage marked as invalid"

\* C10, as stated: every joined row the lease predicate returns is accepted
\* by shouldValidatePrediction.
C10_LeasedPassesPreFilter ==
  (probe.leaseRan /\ probe.returned /\ probe.checkRan)
  => probe.check.shouldValidate

\* C10, amended: a joined row the lease predicate returns is accepted by
\* shouldValidatePrediction unless its filter_validation_reasoning holds one
\* of the keywords, and then it is rejected with "Filter stage marked as
\* invalid".
C10_LeasedPassesButKeywords ==
  (probe.leaseRan /\ probe.returned /\ probe.checkRan)
  => IF /\ probe.t.reasoning # <<>>
        /\ \E keyword \in invalidKeywords :
             Includes(ToLowerCase(probe.t.reasoning), keyword)
       THEN probe.check = [shouldValidate |-> FALSE,
                           reason |-> "Filter stage marked as invalid"]
       ELSE probe.check = [shouldValidate |-> TRUE, reason |-> ""]

\* A row with null thresholds and a keyword in capitals is returned by the
\* lease predicate and rejected by the pre-filter.
C10_Witness ==
  /\ probe.leaseRan /\ probe.returned /\ probe.checkRan
  /\ ~probe.check.shouldValidate
  /\ IsNull(probe.t.fvc) /\ IsNull(probe.t.start)
  /\ probe.t.reasoning = IsNotAPrediction

\* Field by field: null, or within its bound.
NullOrAtLeast(x, bound) == IsNull(x) \/ Val(x) >= bound
NullOrAtMost(x, bound) == IsNull(x) \/ Val(x) <= bound
StartNullOrSane(t) == IsNull(t.start) \/ IsNull(t.end) \/ Val(t.start) <= Val(t.end)
NumbersNullOrWithin(t) ==
  /\ NullOrAtLeast(t.fvc, 85)
  /\ NullOrAtLeast(t.quality, 30)
  /\ NullOrAtLeast(t.llm, 50)
  /\ NullOrAtMost(t.vagueness, 80)
Matured(t, at) == ~IsNull(t.end) /\ Val(t.end) <= at

\* C11, as stated: a matured row is returned by the lease predicate whenever
\* each of timeframe_start, timeframe_status, filter_validation_confidence,
\* prediction_quality, llm_confidence and vagueness is null or within its
\* bound.
C11_NullsPassLease ==
  ( /\ probe.leaseRan
    /\ Matured(probe.t, probe.at)
    /\ StartNullOrSane(probe.t)
    /\ probe.t.status # "missing"
    /\ NumbersNullOrWithin(probe.t) )
  => probe.returned

\* C11, amended: a matured row is returned by the lease predicate exactly
\* when timeframe_status is present and not "missing" and each of
\* timeframe_start, filter_validation_confidence, prediction_quality,
\* llm_confidence and vagueness is null or within its bound; a row with a
\* null timeframe_status is not returned, although shouldValidatePrediction
\* accepts it.
C11_NullsPassButStatus ==
  /\ (probe.leaseRan /\ Matured(probe.t, probe.at))
       => ( probe.returned <=>
              /\ StartNullOrSane(probe.t)
              /\ probe.t.status \notin {NullStr, "missing"}
              /\ NumbersNullOrWithin(probe.t) )
  /\ (probe.leaseRan /\ ~Matured(probe.t, probe.at)) => ~probe.returned
  /\ ( /\ probe.leaseRan /\ probe.checkRan
       /\ probe.t.status = NullStr /\ probe.t.reasoning = <<>>
       /\ StartNullOrSane(probe.t) /\ NumbersNullOrWithin(probe.t) )
       => ~probe.returned /\ probe.check.shouldValidate

\* A row with every nullable threshold field null is returned.
C11_Witness ==
  /\ probe.leaseRan /\ probe.returned
  /\ IsNull(probe.t.start) /\ IsNull(probe.t.fvc) /\ IsNull(probe.t.quality)
  /\ IsNull(probe.t.llm) /\ IsNull(probe.t.vagueness)
  /\ probe.t.status = "explicit"

\* C12: a lease statement reads the stored predictions whose timeframe_end
\* is present and not later than the now of the call, that pass the
\* thresholds and have no committed result; it returns none or one of them,
\* one with the least timeframe_end among those no other open transaction
\* has locked, and none exactly when there is no such prediction.
C12_LeaseOldestMatured ==
  [][\A w \in Workers :
       /\ LeaseStarts(w) =>
            cand'[w] = {p \in stored :
                          /\ Matured(Prediction(p), now)
                          /\ LeasePredicate(Prediction(p), now)
                          /\ validationResult[p] = <<>>}
       /\ (pc[w] = "lock" /\ pc'[w] \in {"extract", "commit_empty"}) =>
            LET free == {p \in cand[w] :
                           \A o \in Workers \ {w} : ~HoldsLock(o, p)}
            IN IF free = {}
                 THEN pc'[w] = "commit_empty" /\ leased'[w] = Null
                 ELSE /\ pc'[w] = "extract"
                      /\ \E p \in free :
                           /\ leased'[w] = Some(p)
                           /\ \A q \in free :
                                Val(Prediction(p).end) <= Val(Prediction(q).end)]_vars

\* Before prediction 1 matures a worker's lease returned none, because the
\* only matured prediction is leased by another worker.
C12_Witness ==
  \E w \in Workers : \E o \in Workers \ {w} :
    /\ pc[w] = "commit_empty"
    /\ HoldsLock(o, 2)
    /\ now = 0
    /\ validationResult[2] = <<>>

\* The four numeric fields are each null or exactly at the bound.
AtBounds(t) ==
  /\ t.fvc \in {Null, Some(85)}
  /\ t.quality \in {Null, Some(30)}
  /\ t.llm \in {Null, Some(50)}
  /\ t.vagueness \in {Null, Some(80)}

\* One numeric field is one step outside its bound.
OutsideBounds(t) ==
  \/ t.fvc = Some(84)
  \/ t.quality = Some(29)
  \/ t.llm = Some(49)
  \/ t.vagueness = Some(81)

\* C13: for a matured row with a sane timeframe, a status and no keyword,
\* the lease predicate and shouldValidatePrediction both accept
\* prediction_quality 30, vagueness 0.80, llm_confidence 0.50 and
\* filter_validation_confidence 0.85, and both reject 29, 0.81, 0.49 and
\* 0.84.
C13_InclusiveThresholds ==
  ( /\ Matured(probe.t, probe.at)
    /\ StartNullOrSane(probe.t)
    /\ probe.t.status = "explicit"
    /\ probe.t.reasoning \in {<<>>, ClearClaim} )
  => /\ (probe.leaseRan /\ AtBounds(probe.t)) => probe.returned
     /\ (probe.leaseRan /\ OutsideBounds(probe.t)) => ~probe.returned
     /\ (probe.checkRan /\ AtBounds(probe.t)) => probe.check.shouldValidate
     /\ (probe.checkRan /\ OutsideBounds(probe.t)) => ~probe.check.shouldValidate

\* A row with all four fields exactly at their bounds passed both filters.
C13_Witness ==
  /\ probe.leaseRan /\ probe.checkRan
  /\ probe.returned /\ probe.check.shouldValidate
  /\ probe.t.fvc = Some(85) /\ probe.t.quality = Some(30)
  /\ probe.t.llm = Some(50) /\ probe.t.vagueness = Some(80)

\* C14: when the first judge reply said sufficient = true, the validation
\* goes to the outcome mapping with no refinement query, no second search
\* and no second judgment call.
C14_SufficientSkipsRefinement ==
  \A w \in Workers :
    saidSufficient[w] =>
      /\ pc[w] \notin {"refine", "search2", "judge2"}
      /\ calls[w].enhance <= 2
      /\ calls[w].search <= 2
      /\ calls[w].judge <= 1

StageRank(stage) ==
  CASE stage = "prefilter" -> 1
    [] stage = "extraction" -> 2
    [] stage = "enhancement" -> 3
    [] stage = "search" -> 4
    [] stage = "judgment" -> 5
    [] OTHER -> 6

\* In seq no stage completes for the first time after a stage that comes
\* later in the order (the refinement repeats stages, it starts none).
InStageOrder(seq) ==
  \A i \in 1..Len(seq) : \A j \in (i + 1)..Len(seq) :
    StageRank(seq[j]) < StageRank(seq[i])
    => \E k \in 1..(i - 1) : seq[k] = seq[j]

InStages(w, stage) == \E i \in 1..Len(stages[w]) : stages[w][i] = stage

\* C17: when every query of the initial fan-out returned an empty list, the
\* validation asks for no judgment and no refinement (its calls are the
\* INITIAL_QUERIES enhancement and the INITIAL_QUERIES search calls), and it
\* returns MissingContext with proof "No search results found" and no
\* sources.
C17_EmptySearchShortCircuits ==
  \A w \in Workers :
    (InStages(w, "search") /\ combined[w] = 0) =>
      /\ calls[w] = [enhance |-> INITIAL_QUERIES, search |-> INITIAL_QUERIES,
                     judge |-> 0]
      /\ ~InStages(w, "judgment")
      /\ pastAttempts[w] = <<>>
      /\ pc[w] \in {"store", "commit", "rollback"}
      /\ result[w].outcome = "MissingContext"
      /\ result[w].proof = "No search results found"
      /\ result[w].len = 23
      /\ result[w].sources = 0

\* Both initial searches came back empty and the result was inserted.
C17_Witness ==
  \E w \in Workers :
    /\ pc[w] = "commit"
    /\ InStages(w, "search") /\ combined[w] = 0
    /\ result[w].outcome = "MissingContext"
    /\ Len(txRows[w]) = 1 /\ txRows[w][1].outcome = "MissingContext"

\* C18: for a leased prediction that passes the pre-filter, has no
\* prediction context and whose goal-text extraction yields "", the
\* validation issues no chat and no search call and returns Invalid with
\* proof "Unable to extract prediction text" and no sources.
C18_NoTextInvalid ==
  \A w \in Workers :
    ( /\ ~IsNull(leased[w])
      /\ InStages(w, "prefilter")
      /\ TupleOf(w).context = ""
      /\ extractGoalText(TupleOf(w)) = ""
      /\ PreCheckOf[PredOf(w)].shouldValidate )
    => /\ calls[w] = NoCalls
       /\ ~InStages(w, "enhancement") /\ ~InStages(w, "search")
       /\ ~InStages(w, "judgment")
       /\ pc[w] \in {"store", "commit", "rollback"}
       /\ pc[w] \in {"store", "commit"} =>
            /\ result[w].outcome = "Invalid"
            /\ result[w].proof = "Unable to extract prediction text"
            /\ result[w].len = 33
            /\ result[w].sources = 0

\* A prediction without context and without goal slices was stored Invalid.
C18_Witness ==
  \E w \in Workers :
    /\ pc[w] = "commit"
    /\ ~IsNull(leased[w])
    /\ TupleOf(w).context = "" /\ extractGoalText(TupleOf(w)) = ""
    /\ result[w].proof = "Unable to extract prediction text"
    /\ Len(txRows[w]) = 1 /\ txRows[w][1].outcome = "Invalid"

HoldsScore(s) ==
  /\ s # <<>>
  /\ \A i \in 1..Len(s) : IsDigit(s[i])
  /\ DecimalValue(s) \in 0..10

\* C20: when the <score> tag holds an integer of 0..10 the judgment's score
\* is that integer, 0 included; when the tag is missing or empty the score
\* is the default 5.
C20_ScoreIsTagInteger ==
  judgeProbe.ran =>
    /\ HoldsScore(judgeProbe.scoreStr)
         => judgeProbe.judgment.score = DecimalValue(judgeProbe.scoreStr)
    /\ judgeProbe.scoreStr = <<>> => judgeProbe.judgment.score = DefaultScore

\* C21: every judgment ResultJudge.evaluate returns has an integer score in
\* 0..10, whatever the <score> tag of the reply holds.
C21_ScoreInRange ==
  judgeProbe.ran => judgeProbe.judgment.score \in 0..10

\* Worker w's validation went through the outcome mapping: it holds the
\* result built from its last judgment.
ReachedMapping(w) ==
  \/ pc[w] = "costlog"
  \/ /\ pc[w] \in {"store", "commit"}
     /\ InStages(w, "judgment")
     /\ ~fault[w].chat

\* C22: for a validation that reached the outcome mapping the outcome is
\* given by the last judgment: TRUE with score >= 9 is MaturedTrue and with
\* score < 9 MaturedMostlyTrue, FALSE with score <= 2 is MaturedFalse and
\* with score > 2 MaturedMostlyFalse, INCONCLUSIVE is MissingContext; so a
\* MaturedTrue has score >= 9, a MaturedFalse score <= 2, TRUE has score >= 4
\* and FALSE score <= 6; the row inserted carries that outcome.
C22_OutcomeFromJudgment ==
  \A w \in Workers :
    ReachedMapping(w) =>
      LET j == lastJudgment[w]
          o == result[w].outcome
      IN /\ j.decision \in {"TRUE", "FALSE", "INCONCLUSIVE"}
         /\ (j.decision = "TRUE" /\ j.score >= 9) => o = "MaturedTrue"
         /\ (j.decision = "TRUE" /\ j.score < 9) => o = "MaturedMostlyTrue"
         /\ (j.decision = "FALSE" /\ j.score <= 2) => o = "MaturedFalse"
         /\ (j.decision = "FALSE" /\ j.score > 2) => o = "MaturedMostlyFalse"
         /\ j.decision = "INCONCLUSIVE" => o = "MissingContext"
         /\ o = "MaturedTrue" => j.score >= 9
         /\ o = "MaturedFalse" => j.score <= 2
         /\ j.decision = "TRUE" => j.score >= 4
         /\ j.decision = "FALSE" => j.score <= 6
         /\ \A i \in 1..Len(txRows[w]) : txRows[w][i].outcome = o

\* A second judgment of score exactly 9 was stored as MaturedTrue.
C22_Witness ==
  \E w \in Workers :
    /\ pc[w] = "commit"
    /\ calls[w].judge = 2
    /\ lastJudgment[w].decision = "TRUE" /\ lastJudgment[w].score = 9
    /\ Len(txRows[w]) = 1 /\ txRows[w][1].outcome = "MaturedTrue"

EndsInEllipsis(t) == t # <<>> /\ t[Len(t)].c = "." /\ t[Len(t)].n >= 3

AllRows ==
  UNION { {txRows[w][i] : i \in 1..Len(txRows[w])} : w \in Workers }
    \cup UNION { {validationResult[p][i] : i \in 1..Len(validationResult[p])} :
                 p \in Preds }

\* C23: every row inserted or committed, whatever path produced its result,
\* has a proof of at most 700 characters.
C23_ProofAtMost700 ==
  \A row \in AllRows : Length(row.text) <= 700 /\ row.len = Length(row.text)

\* The row of a validation error whose text had more than 700 characters.
C23_Witness ==
  \E w \in Workers :
    /\ pc[w] = "commit"
    /\ fault[w].chat
    /\ Length(result[w].text) > 700
    /\ Len(txRows[w]) = 1 /\ Length(txRows[w][1].text) = 700

\* The proof text validatePrediction built for w's validation: the judged
\* proof before truncateText, or the text of the result on the other paths.
BuiltText(w) ==
  IF ReachedMapping(w) THEN ProofText(lastJudgment[w].lens) ELSE result[w].text

\* C24: when the proof text built for a validation is longer than 700
\* characters, on the "Validation error: <message>" path too, the row
\* inserted holds its first 697 characters followed by "...".
C24_LongProofEllipsis ==
  \A w \in Workers :
    (pc[w] = "commit" /\ Len(txRows[w]) = 1 /\ Length(BuiltText(w)) > 700)
    => txRows[w][1].text = Concat(Slice(BuiltText(w), 697), Ellipsis)

\* C25: truncateText(s, 700) is s when s has at most 700 characters, and
\* otherwise has exactly 700 characters, the first 697 of s and then "...";
\* truncating the result again changes nothing.
C25_TruncateIdempotent ==
  /\ textProbe.step >= 1 =>
       IF Length(textProbe.text) <= 700
         THEN textProbe.once = textProbe.text
         ELSE /\ Length(textProbe.once) = 700
              /\ EndsInEllipsis(textProbe.once)
              /\ Slice(textProbe.once, 697) = Slice(textProbe.text, 697)
              /\ textProbe.once = Concat(Slice(textProbe.text, 697), Ellipsis)
  /\ textProbe.step = 2 => textProbe.twice = textProbe.once

\* A text of 818 characters was truncated twice.
C25_Witness ==
  /\ textProbe.step = 2
  /\ Length(textProbe.text) = 818
  /\ Length(textProbe.twice) = 700

Matureds ==
  {"MaturedTrue", "MaturedMostlyTrue", "MaturedFalse", "MaturedMostlyFalse"}

\* C26: a result the validation returned, and the row inserted from it, has
\* at most two sources; none when the outcome is Invalid or MissingContext;
\* and for a Matured outcome at least one, namely the first min(2, n)
\* entries of the combined list of n results, in the order of that list.
C26_SourcesFirstTwo ==
  \A w \in Workers :
    pc[w] \in {"costlog", "store", "commit"} =>
      LET r == result[w]
      IN /\ Len(r.sourceIdx) <= 2
         /\ r.sources = Len(r.sourceIdx)
         /\ r.outcome \in {"Invalid", "MissingContext"} => r.sourceIdx = <<>>
         /\ r.outcome \in Matureds =>
              /\ r.sourceIdx # <<>>
              /\ r.sourceIdx = [i \in 1..Min(2, combined[w]) |-> i]
         /\ \A i \in 1..Len(txRows[w]) :
              /\ txRows[w][i].sourceIdx = r.sourceIdx
              /\ txRows[w][i].sources = r.sources

\* A Matured row over a combined list of more than two results.
C26_Witness ==
  \E w \in Workers :
    /\ pc[w] = "commit"
    /\ combined[w] > 2
    /\ Len(txRows[w]) = 1
    /\ txRows[w][1].outcome \in Matureds
    /\ txRows[w][1].sourceIdx = <<1, 2>>

\* The number of committed rows of the predictions 1..n, and of those with
\* outcome o.
RECURSIVE CommittedRows(_)
CommittedRows(n) ==
  IF n = 0 THEN 0 ELSE Len(validationResult[n]) + CommittedRows(n - 1)

RECURSIVE CommittedWith(_, _)
CommittedWith(o, n) ==
  IF n = 0 THEN 0
  ELSE Cardinality({i \in 1..Len(validationResult[n]) :
                      validationResult[n][i].outcome = o})
         + CommittedWith(o, n - 1)

\* C27: the cost tracker is updated for a validation only after the
\* transaction that inserted its row has committed: at no time has the
\* tracker counted more validations than rows are committed.
C27_TrackerAfterCommit == session.validated <= CommittedRows(NumProfiles)

\* C28: at most one cost-log entry is ever appended for a prediction, and
\* none for a prediction that has no committed row and no transaction about
\* to commit one.
C28_OneCostEntry ==
  \A p \in Preds :
    /\ Len(costLog[p]) <= 1
    /\ costLog[p] # <<>> =>
         \/ validationResult[p] # <<>>
         \/ \E w \in Workers :
              leased[w] = Some(p) /\ pc[w] \in {"store", "commit", "rollback"}

\* C29: every committed validation, whatever its outcome, has been counted
\* by the cost tracker: the session's validated count is at least the number
\* of committed rows, and its count of each outcome at least the number of
\* committed rows with that outcome.
C29_CommittedCounted ==
  /\ session.validated >= CommittedRows(NumProfiles)
  /\ \A o \in Outcomes : session.outcomes[o] >= CommittedWith(o, NumProfiles)

\* C30: when appending the cost-log entry failed, validatePrediction returns
\* the judged result it had built, the row of that result is inserted, and
\* the commit makes it the prediction's newest committed row; the only way
\* to a rollback is a failed database statement.
C30_LogFailureSwallowed ==
  /\ [](\A w \in Workers :
          fault[w].log =>
            /\ pc[w] \in {"store", "commit", "rollback"}
            /\ pc[w] = "rollback" => fault[w].db
            /\ ~fault[w].chat
            /\ result[w] = JudgedResult(lastJudgment[w], combined[w])
            /\ result[w].outcome \in Matureds \cup {"MissingContext"}
            /\ result[w].proof = "summary"
            /\ pc[w] = "commit" =>
                 /\ Len(txRows[w]) = 1
                 /\ txRows[w][1].outcome = result[w].outcome
                 /\ txRows[w][1].text = result[w].text
                 /\ txRows[w][1].sourceIdx = result[w].sourceIdx)
  /\ [][\A w \in Workers :
          (fault[w].log /\ pc[w] = "commit" /\ pc'[w] = "loop")
          => validationResult'[PredOf(w)]
               = validationResult[PredOf(w)] \o txRows[w]]_vars

\* The append failed, nothing was logged or counted, and the Matured row is
\* inserted and about to be committed.
C30_Witness ==
  \E w \in Workers :
    /\ pc[w] = "commit"
    /\ fault[w].log
    /\ costLog[PredOf(w)] = <<>>
    /\ session = NoSession
    /\ Len(txRows[w]) = 1 /\ txRows[w][1].outcome = "MaturedMostlyTrue"

\* ------------------------------------------------------------- shutdown
AllStopped == \A w \in Workers : w <= concurrency => pc[w] = "stopped"

\* A step that ends worker w's lease of p adds one committed row for p.
EndsByCommit(w, p) ==
  leased[w] = Some(p) /\ leased'[w] # Some(p) =>
    /\ Len(validationResult'[p]) = Len(validationResult[p]) + 1
    /\ pc'[w] = "loop"

\* C31: once the stop flag is set, and with every call returning, a worker
\* that holds a leased prediction ends that validation by committing its row
\* (the stop flag aborts nothing) and stops only after it; every worker
\* stops, and the supervisor exits with code 0, and only when every worker
\* has stopped.
C31_StopCompletesInFlight ==
  /\ [][shouldStop => \A w \in Workers, p \in Preds : EndsByCommit(w, p)]_vars
  /\ [](\A w \in Workers :
          pc[w] = "stopped" => leased[w] = Null /\ txRows[w] = <<>>)
  /\ \A w \in Workers : shouldStop ~> (pc[w] = "stopped")
  /\ shouldStop ~> (exitCode = Some(0))
  /\ [](exitCode # Null => exitCode = Some(0) /\ AllStopped)

\* The flag is set (another worker has already stopped on it) while a worker
\* is inside its transaction with the row of its validation inserted.
C31_Witness ==
  /\ shouldStop
  /\ \E w, o \in Workers :
       /\ pc[o] = "stopped"
       /\ pc[w] = "commit"
       /\ leased[w] # Null
       /\ txRows[w] # <<>>

\* ------------------------------------------------------ writes on storage
IsPrefix(a, b) == Len(a) <= Len(b) /\ SubSeq(b, 1, Len(a)) = a

\* C32: every step leaves the committed validation_result rows of every
\* prediction in place, unchanged and in their order (rows are only added
\* after them), and leaves the stored predictions as they are.
C32_OnlyInsertsResults ==
  [][ /\ \A p \in Preds : IsPrefix(validationResult[p], validationResult'[p])
      /\ stored' = stored ]_vars

\* A prediction that already had a row got a second one; both are there.
C32_Witness ==
  \E p \in Preds :
    /\ Len(validationResult[p]) = 2
    /\ validationResult[p][1] # validationResult[p][2]

\* -------------------------------------------------- the combined result list
\* The response the provider gave to query q.
ResponseTo(q) ==
  IF q = RefinedQuery THEN searchProbe.refined ELSE searchProbe.responses[q]

\* The ranks of query q's results that belong in the list: the linked ones,
\* the RESULTS_PER_QUERY first of them.
KeptRanks(q) ==
  LET resp == ResponseTo(q)
      linked == IF resp.kind = "ok" THEN (1..resp.n) \ resp.unlinked ELSE {}
  IN {i \in linked : Cardinality({j \in linked : j < i}) < RESULTS_PER_QUERY}

\* list holds, for each query of qs, exactly its kept results once each, the
\* queries in their order and each query's results in the provider's order.
InQueryOrder(list, qs) ==
  /\ \A i \in 1..Len(list) :
       list[i].query \in qs /\ list[i].rank \in KeptRanks(list[i].query)
  /\ \A q \in qs : \A k \in KeptRanks(q) :
       \E i \in 1..Len(list) : list[i].query = q /\ list[i].rank = k
  /\ \A i, j \in 1..Len(list) :
       i < j => \/ list[i].query < list[j].query
                \/ list[i].query = list[j].query /\ list[i].rank < list[j].rank

\* C33: the combined list is the per-query result lists joined in query
\* order, each in the provider's order with at most RESULTS_PER_QUERY
\* entries; after the refinement the initial results keep their positions and
\* the refined query's results follow them.
C33_CombinedInQueryOrder ==
  /\ searchProbe.step >= 1 =>
       /\ InQueryOrder(searchProbe.initial, 1..INITIAL_QUERIES)
       /\ \A q \in 1..INITIAL_QUERIES :
            Cardinality(KeptRanks(q)) <= RESULTS_PER_QUERY
  /\ searchProbe.step = 1 => searchProbe.combined = searchProbe.initial
  /\ searchProbe.step = 2 =>
       /\ IsPrefix(searchProbe.initial, searchProbe.combined)
       /\ InQueryOrder(searchProbe.combined, 1..RefinedQuery)
       /\ Cardinality(KeptRanks(RefinedQuery)) <= RESULTS_PER_QUERY

\* Both initial queries and the refined one gave results, the provider sent
\* more than ten for the first query and one of them without a link.
C33_Witness ==
  /\ searchProbe.step = 2
  /\ searchProbe.responses[1].n > RESULTS_PER_QUERY
  /\ searchProbe.responses[1].unlinked # {}
  /\ Len(searchProbe.combined) > Len(searchProbe.initial)
  /\ Len(searchProbe.initial) > RESULTS_PER_QUERY

\* ------------------------------------------------ what the judge is given
\* C34: the list the Result Judge is called with holds at most
\* INITIAL_QUERIES * RESULTS_PER_QUERY (20) entries at the first judgment and
\* at most MAX_TOTAL_RESULTS (30) at the second.
C34_JudgeInputBounded ==
  \A w \in Workers :
    /\ pc[w] = "judge" =>
         /\ combined[w] <= INITIAL_QUERIES * RESULTS_PER_QUERY
         /\ combined[w] <= MAX_TOTAL_RESULTS
    /\ pc[w] = "judge2" => combined[w] <= MAX_TOTAL_RESULTS

\* The second judgment is pending over a full list: every query was answered
\* with more results than were asked for.
C34_Witness ==
  \E w \in Workers : pc[w] = "judge2" /\ combined[w] = MAX_TOTAL_RESULTS

\* ------------------------------------------- keywords in the filter reasoning
\* C35: a row that passes every timeframe and numeric check and whose
\* reasoning holds a keyword anywhere, in lower, upper or mixed case, is
\* rejected by the pre-filter; the proof of the Invalid result, as built and
\* as stored, is the fixed text followed by the first QuoteMax (200)
\* characters of the reasoning, or by all of it when it is shorter.
C35_KeywordRejectedQuoted ==
  (probe.checkRan /\ probe.plant.k # 0) =>
    /\ ~probe.check.shouldValidate
    /\ probe.check.reason = "Filter stage marked as invalid"
    /\ probe.rejected.outcome = "Invalid"
    /\ LET text == probe.rejected.text
           whole == CharsText(FilterStagePrefix \o probe.t.reasoning)
       IN /\ Length(text) =
               Len(FilterStagePrefix) + Min(Len(probe.t.reasoning), QuoteMax)
          /\ text = Slice(whole, Length(text))
          /\ probe.rejected.len = Length(text)
    /\ probe.row # NoResult =>
         /\ probe.row.outcome = "Invalid"
         /\ probe.row.text = probe.rejected.text

\* A keyword in capitals that starts after the 200th character of the
\* reasoning: the row is rejected and stored, the proof quotes 200 characters.
C35_Witness ==
  /\ probe.checkRan
  /\ probe.plant.k # 0 /\ probe.plant.casing = "upper"
  /\ probe.plant.before > QuoteMax
  /\ probe.row # NoResult
  /\ Length(probe.row.text) = Len(FilterStagePrefix) + QuoteMax

\* ------------------------------------------------------ the prediction text
\* The text slice i of the drawn goal is cut from: the tweet its source
\* names, the leased tweet without a source, nothing when no row has the id.
NamedText(i) ==
  LET src == goalProbe.goal[i].source
  IN IF src = NoSource THEN Thread[CurrentTweetId]
     ELSE IF src \in DOMAIN Thread THEN Thread[src] ELSE <<>>

\* text[start:end] of slice i.
Cut(i) ==
  LET text == NamedText(i)
      lo == Min(goalProbe.goal[i].start, Len(text))
      hi == Min(goalProbe.goal[i].end, Len(text))
  IN [k \in 1..(IF hi > lo THEN hi - lo ELSE 0) |-> text[lo + k]]

AllSourcesStored ==
  \A i \in 1..Len(goalProbe.goal) :
    goalProbe.goal[i].source \in {NoSource} \cup DOMAIN Thread

\* The cuts of the slices 1..n one after the other, with nothing between.
RECURSIVE Glued(_)
Glued(n) == IF n = 0 THEN <<>> ELSE Glued(n - 1) \o Cut(n)

\* The same with one space between every two non-empty cuts.
RECURSIVE Spaced(_)
Spaced(n) ==
  IF n = 0 THEN <<>>
  ELSE IF Len(Cut(n)) = 0 THEN Spaced(n - 1)
  ELSE IF Len(Spaced(n - 1)) = 0 THEN Cut(n)
  ELSE Spaced(n - 1) \o <<" ">> \o Cut(n)

\* C36, as stated: a non-empty prediction_context is the prediction text;
\* otherwise the prediction text is the cuts text[start:end] of the goal
\* slices, in order, one directly after the other.
C36_TextIsConcatenation ==
  goalProbe.ran =>
    IF Len(goalProbe.context) > 0
      THEN goalProbe.predictionText = goalProbe.context
      ELSE AllSourcesStored =>
             goalProbe.predictionText = Glued(Len(goalProbe.goal))

\* C36, amended: a non-empty prediction_context is the prediction text;
\* otherwise the prediction text is the non-empty cuts text[start:end] of the
\* goal slices, in order, joined by single spaces, where a slice that names a
\* tweet no row has contributes nothing.
C36_TextIsSpacedJoin ==
  goalProbe.ran =>
    IF Len(goalProbe.context) > 0
      THEN goalProbe.predictionText = goalProbe.context
      ELSE goalProbe.predictionText = Spaced(Len(goalProbe.goal))

\* No context; the first slice is cut from the other tweet of the thread and
\* the second, without a source, from the leased one; both cuts are in the
\* text, in that order.
C36_Witness ==
  /\ goalProbe.ran
  /\ Len(goalProbe.context) = 0
  /\ Len(goalProbe.goal) = 2
  /\ goalProbe.goal[1].source = "other"
  /\ goalProbe.goal[2].source = NoSource
  /\ goalProbe.predictionText = << "w", "x", "y", "z", " ", "a", "b" >>

\* --------------------------------------------------- no new work after stop
\* C37: in a step taken with the stop flag set, no worker begins a
\* transaction; a prediction is leased only by the lease statement of a
\* transaction that was already open; a worker at its loop test can only
\* leave the loop, and a stopped worker stays stopped.
C37_NoNewWorkAfterStop ==
  [][shouldStop =>
       \A w \in Workers :
         /\ pc'[w] = "lock" => pc[w] = "lock"
         /\ (leased[w] = Null /\ leased'[w] # Null) => pc[w] = "lock"
         /\ (pc[w] = "loop" /\ pc'[w] # "loop") => pc'[w] = "stopped"
         /\ pc[w] = "stopped" => pc'[w] = "stopped"]_vars

\* The flag is set, every worker has left its loop, and a prediction that is
\* eligible for the lease is still without a row.
C37_Witness ==
  /\ shouldStop
  /\ AllStopped
  /\ \E p \in stored : Eligible(p, now)

\* ------------------------------------------------------------- progress
\* C38: with the workers running and every call returning, a stored
\* prediction that is eligible for the lease and whose own processing cannot
\* fail eventually has a validation_result row, also while the processing of
\* an older prediction fails again and again.
C38_LaterPredictionsReached ==
  \A q \in {p \in Preds : ~NeedsFetch(Prediction(p))} :
    Eligible(q, now) ~> ~HasNoResult(q)


\* --------------------------------------------------------- session counts
RECURSIVE SumCounts(_, _)
SumCounts(f, keys) ==
  IF keys = {} THEN 0
  ELSE LET k == CHOOSE x \in keys : TRUE
       IN f[k] + SumCounts(f, keys \ {k})

\* The sum of one field over the entries updateCosts was called with.
SumSearches == SumCounts([i \in 1..Len(trackerProbe.entries) |->
                            trackerProbe.entries[i].searchApiCalls],
                         1..Len(trackerProbe.entries))
SumInput == SumCounts([i \in 1..Len(trackerProbe.entries) |->
                         trackerProbe.entries[i].totalInputTokens],
                      1..Len(trackerProbe.entries))
SumOutput == SumCounts([i \in 1..Len(trackerProbe.entries) |->
                          trackerProbe.entries[i].totalOutputTokens],
                       1..Len(trackerProbe.entries))

NoCounterDecreases ==
  /\ session'.validated >= session.validated
  /\ session'.searchApiCalls >= session.searchApiCalls
  /\ session'.totalInputTokens >= session.totalInputTokens
  /\ session'.totalOutputTokens >= session.totalOutputTokens
  /\ \A o \in Outcomes : session'.outcomes[o] >= session.outcomes[o]
  /\ session'.searchCost >= session.searchCost
  /\ session'.llmCost >= session.llmCost
  /\ session'.totalCost >= session.totalCost

\* C39: after any updateCosts calls, between any updates of the workers'
\* activities, the session's validated count is the number of calls and the
\* sum of the counts per outcome, its search-call and token counters are the
\* sums of the entries' fields, and no counter or cost of the session
\* decreases in any step.
C39_SessionCounts ==
  /\ [](/\ session.validated = trackerProbe.calls
        /\ session.validated = SumCounts(session.outcomes, Outcomes)
        /\ session.searchApiCalls = SumSearches
        /\ session.totalInputTokens = SumInput
        /\ session.totalOutputTokens = SumOutput)
  /\ [][NoCounterDecreases]_vars

\* updateCosts ran MaxCalls times, twice or more with the same outcome and
\* with entries that differ in searches and usage, and a worker's activity
\* was updated in between.
C39_Witness ==
  /\ trackerProbe.calls = MaxCalls
  /\ \E o \in Outcomes : session.outcomes[o] >= 2
  /\ \E i, j \in 1..Len(trackerProbe.entries) :
       /\ trackerProbe.entries[i].searchApiCalls
            # trackerProbe.entries[j].searchApiCalls
       /\ trackerProbe.entries[i].totalInputTokens
            # trackerProbe.entries[j].totalInputTokens
  /\ \E w \in Workers : activity[w] \in ProbeActivities

====
